---- MODULE Spec2Model ----
(***************************************************************************)
(* State Store (GameState) of the paperclips runtime core: the dotted-path *)
(* tree with get/set/increment/decrement, the observer registry, and the   *)
(* persistence envelope (save/load/importSave) kept in localStorage; and   *)
(* the Tick Scheduler (GameLoop) that polls the clock on every display     *)
(* refresh and runs the update, render, autosave and cleanup activities.   *)
(*                                                                         *)
(* JavaScript values are records [t, n]: t is the type tag, n the payload  *)
(* (the number, 0/1 for booleans, the length for strings; "wstr" is a      *)
(* string holding a character above U+00FF).  Objects and                  *)
(* arrays live in the tree: the tree is a function from paths (tuples of   *)
(* keys, <<>> being the GameState instance itself) to values, and the own  *)
(* properties of the object stored at p are the paths Append(p, k) in its  *)
(* domain.  Keys that name inherited members (methods of the class,        *)
(* 'length', '__proto__', 'constructor') and the key '*' are not drawn.    *)
(***************************************************************************)
EXTENDS Integers, Sequences, FiniteSets, TLC

VARIABLES
  tree,       \* the state tree: the GameState instance and what hangs below it
  observers,  \* this.observers: pattern -> callbacks, in insertion order
  storage,    \* what localStorage holds under 'universalPaperclipsSave'
  disposers,  \* the unsubscribe functions addObserver has returned so far
  regOrder,   \* the registered (pattern, callback) pairs, oldest first
  log,        \* the callbacks the last call invoked, in invocation order
  last,       \* the last call: its arguments and how it ended
  steps,      \* the number of calls made
  gameLoop,   \* the fields of the GameLoop instance
  clock,      \* what Date.now() returns
  frames,     \* the requestAnimationFrame callbacks that are pending, by id
  nextFrame,  \* the id the next requestAnimationFrame call returns
  trace,      \* the passes and handlers the last scheduler call ran, in order
  history,    \* per activity, the clock values loop() sampled for its passes
  phaseManager,  \* the fields of the PhaseManager instance
  tasks,         \* the asynchronous calls on the phase manager, oldest first
  initialized,   \* per module, how often its initializer has been called
  domBatcher,    \* the fields of the DOMBatcher instance
  document,      \* the elements of the page, by id
  refreshes,     \* the display-refresh callbacks the batcher has pending, by id
  nextCallback,  \* the id the batcher's next requestAnimationFrame call returns
  applied,       \* what the last batcher call did to the page, in order
  queued,        \* per category and target, the payload queued last
  memoryMonitor, \* the fields of the MemoryMonitor instance
  timers,        \* the setInterval timers that are active, by id
  nextTimer,     \* the id the next setInterval call returns
  frameTimes,    \* performanceMonitor.frameTimes
  errorLog,      \* errorHandler.errorLog
  arrived,       \* per history, the number of entries pushed so far
  uiRenderer     \* the fields of the UIRenderer instance

loopVars == <<gameLoop, clock, frames, nextFrame, trace, history>>

phaseVars == <<phaseManager, tasks, initialized>>

batchVars == <<domBatcher, document, refreshes, nextCallback, applied, queued>>

monitorVars == <<memoryMonitor, timers, nextTimer, frameTimes, errorLog, arrived>>

restVars == <<phaseVars, batchVars, monitorVars, uiRenderer>>

vars == <<tree, observers, storage, disposers, regOrder, log, last, steps, loopVars, restVars>>

----------------------------------------------------------------------------
(* Bounds of the model *)

MaxSteps == 2
MaxObsSteps == 3
MaxSaveSteps == 3
MaxLoopSteps == 4
MaxTimingSteps == 5

----------------------------------------------------------------------------
(* JavaScript values *)

Val(t, n) == [t |-> t, n |-> n]
Undefined == Val("undef", 0)
Null == Val("null", 0)
NaN == Val("nan", 0)
Num(n) == Val("num", n)
Bool(b) == Val("bool", IF b THEN 1 ELSE 0)
Str(n) == Val("str", n)
WStr == Val("wstr", 1)
Obj == Val("obj", 0)
Arr == Val("arr", 0)

IsObject(v) == v.t \in {"obj", "arr"}
IsNullish(v) == v.t \in {"undef", "null"}
IsString(v) == v.t \in {"str", "wstr"}

\* ToBoolean: the falsy values are undefined, null, 0, NaN, false and ''
Truthy(v) ==
  CASE v.t \in {"undef", "null", "nan"} -> FALSE
    [] v.t \in {"num", "bool", "str"} -> v.n # 0
    [] OTHER -> TRUE

\* a !== b for two values, where sameRef tells whether two object values are
\* one reference; NaN is different from every value, itself included
StrictNotEqual(a, b, sameRef) ==
  IF a.t = "nan" \/ b.t = "nan" THEN TRUE
  ELSE IF IsObject(a) /\ IsObject(b) THEN ~sameRef
  ELSE a # b

----------------------------------------------------------------------------
(* Paths *)

IsPrefix(p, q) == Len(p) <= Len(q) /\ SubSeq(q, 1, Len(p)) = p
IsStrictPrefix(p, q) == Len(p) < Len(q) /\ IsPrefix(p, q)
Related(p, q) == IsPrefix(p, q) \/ IsPrefix(q, p)
Parent(p) == SubSeq(p, 1, Len(p) - 1)
LastKey(p) == p[Len(p)]

\* the own enumerable keys of the object stored at p
KeysAt(tr, p) == {LastKey(q) : q \in {r \in DOMAIN tr : Len(r) = Len(p) + 1 /\ IsPrefix(p, r)}}

\* the tree with everything stored under p removed
WithoutBelow(tr, p) == [q \in {r \in DOMAIN tr : ~IsStrictPrefix(p, r)} |-> tr[q]]

\* the tree with p bound to v
Bind(tr, p, v) == [q \in DOMAIN tr \cup {p} |-> IF q = p THEN v ELSE tr[q]]

----------------------------------------------------------------------------
(* The default shape built by the constructor (a leaf or two per category) *)

DefaultWire == 1000

DefaultTree ==
  (<<>> :> Obj)
  @@ (<<"resources">> :> Obj)
  @@ (<<"resources", "clips">> :> Num(0))
  @@ (<<"resources", "wire">> :> Num(DefaultWire))
  @@ (<<"market">> :> Obj)
  @@ (<<"market", "incomeTracker">> :> Arr)
  @@ (<<"market", "incomeTracker", "0">> :> Num(0))
  @@ (<<"flags">> :> Obj)
  @@ (<<"flags", "space">> :> Bool(FALSE))
  @@ (<<"ui">> :> Obj)
  @@ (<<"ui", "ticks">> :> Num(0))
  @@ (<<"meta">> :> Obj)
  @@ (<<"meta", "transaction">> :> Null)

----------------------------------------------------------------------------
(* get(path) *)

\* value[key] for a value found at loc: a TypeError on undefined and null,
\* the own property of an object, the character of a string index, and
\* undefined on every other primitive
Prop(tr, loc, value, key) ==
  IF IsNullish(value) THEN [threw |-> TRUE, val |-> Undefined]
  ELSE IF IsObject(value)
    THEN [threw |-> FALSE,
          val |-> IF Append(loc, key) \in DOMAIN tr THEN tr[Append(loc, key)] ELSE Undefined]
  ELSE IF IsString(value) /\ key = "0" /\ value.n > 0
    THEN [threw |-> FALSE, val |-> Val(value.t, 1)]
  ELSE [threw |-> FALSE, val |-> Undefined]

RECURSIVE GetWalk(_, _, _, _)
GetWalk(tr, path, i, value) ==
  IF i > Len(path) THEN [threw |-> FALSE, val |-> value]
  ELSE LET r == Prop(tr, SubSeq(path, 1, i - 1), value, path[i])
       IN IF r.threw THEN [threw |-> TRUE, val |-> Undefined]
          ELSE IF r.val = Undefined THEN [threw |-> FALSE, val |-> Undefined]
          ELSE GetWalk(tr, path, i + 1, r.val)

Get(tr, path) == GetWalk(tr, path, 1, tr[<<>>])

----------------------------------------------------------------------------
(* set(path, newValue) and notifyObservers *)

\* A store in the middle of a call: the tree, the observer registry, the
\* callbacks invoked so far, the paths written by re-entrant set calls (each
\* with the number of callbacks invoked before it), and whether the call
\* ended by throwing
Store(tr, obs) == [tree |-> tr, observers |-> obs, log |-> <<>>, writes |-> <<>>, threw |-> FALSE]

\* the loop over keys: 'key in target' is a TypeError on a primitive, a
\* missing level is created as {}, and target moves one level down
RECURSIVE SetWalk(_, _, _, _)
SetWalk(tr, path, i, target) ==
  IF i >= Len(path) THEN [threw |-> FALSE, tree |-> tr, target |-> target]
  ELSE IF ~IsObject(target) THEN [threw |-> TRUE, tree |-> tr, target |-> target]
  ELSE LET np == SubSeq(path, 1, i)
           tr1 == IF np \in DOMAIN tr THEN tr ELSE Bind(tr, np, Obj)
       IN SetWalk(tr1, path, i + 1, tr1[np])

\* target[lastKey] = newValue on an object target; storing the reference that
\* is already there changes nothing
StoreLeaf(tr, path, newValue, sameRef) ==
  IF IsObject(newValue) /\ sameRef THEN tr
  ELSE Bind(WithoutBelow(tr, path), path, newValue)

\* the observers a write to path reaches, in the order notifyObservers visits
\* their patterns: the exact path, then '<prefix>.*' from the longest prefix
\* down to the first key
WildcardPath(path, i) == Append(SubSeq(path, 1, i), "*")

RECURSIVE WildcardPatterns(_, _)

\* a notifier that reaches only the wildcard of the direct parent
WildcardDirectParent(path, i) ==
  IF i <= 0 THEN <<>> ELSE <<WildcardPath(path, i)>>

WildcardPatterns(path, i) ==
  IF i <= 0 THEN <<>> ELSE <<WildcardPath(path, i)>> \o WildcardPatterns(path, i - 1)

\* a notifier that visits the wildcard patterns before the exact path
NotifiedPatternsWildcardFirst(path) == WildcardPatterns(path, Len(path) - 1) \o <<path>>

NotifiedPatterns(path) == <<path>> \o WildcardPatterns(path, Len(path) - 1)

\* what the callbacks of the model do when invoked
Callbacks == {"recorder", "writer", "thrower"}
WriterPath == <<"flags", "space">>
WriterValue == Bool(TRUE)

RECURSIVE SetPath(_, _, _, _, _)
RECURSIVE RunCallbacks(_, _, _, _, _, _, _)
RECURSIVE NotifyPatterns(_, _, _, _, _, _, _)

\* one callback(newValue, oldValue) or, for a wildcard pattern,
\* callback(newValue, oldValue, path), inside its try/catch.  Every callback
\* is logged with what get(path) returns as it starts; the writer then calls
\* set(WriterPath, WriterValue), the thrower throws
RunCallback(S, cb, pattern, path, newValue, oldValue, depth) ==
  LET entry == [cb |-> cb, pattern |-> pattern, path |-> path, new |-> newValue,
                old |-> oldValue, pathArg |-> (LastKey(pattern) = "*"),
                seen |-> Get(S.tree, path).val, depth |-> depth,
                threw |-> (cb = "thrower"), reread |-> Undefined]
      k == Len(S.log) + 1
      S1 == [S EXCEPT !.log = Append(@, entry)]
  IN IF cb = "writer"
       THEN LET S2 == SetPath(S1, WriterPath, WriterValue, FALSE, depth + 1)
            IN [S2 EXCEPT !.log[k].threw = S2.threw,
                          !.log[k].reread = Get(S2.tree, WriterPath).val,
                          !.threw = FALSE]
       ELSE S1

\* a loop whose try/catch is around the loop: it ends at the first callback
\* that throws
RECURSIVE RunCallbacksUntilThrow(_, _, _, _, _, _, _)
RunCallbacksUntilThrow(S, pattern, k, path, newValue, oldValue, depth) ==
  IF pattern \notin DOMAIN S.observers THEN S
  ELSE IF k > Len(S.observers[pattern]) THEN S
  ELSE LET S1 == RunCallback(S, S.observers[pattern][k], pattern, path, newValue, oldValue, depth)
       IN IF S1.log[Len(S.log) + 1].threw THEN S1
          ELSE RunCallbacksUntilThrow(S1, pattern, k + 1, path, newValue, oldValue, depth)

\* for (const callback of <the Set registered under pattern>)
RunCallbacks(S, pattern, k, path, newValue, oldValue, depth) ==
  IF pattern \notin DOMAIN S.observers THEN S
  ELSE IF k > Len(S.observers[pattern]) THEN S
  ELSE RunCallbacks(RunCallback(S, S.observers[pattern][k], pattern, path, newValue, oldValue, depth),
                    pattern, k + 1, path, newValue, oldValue, depth)

NotifyPatterns(S, patterns, j, path, newValue, oldValue, depth) ==
  IF j > Len(patterns) THEN S
  ELSE NotifyPatterns(RunCallbacks(S, patterns[j], 1, path, newValue, oldValue, depth),
                      patterns, j + 1, path, newValue, oldValue, depth)

NotifyObservers(S, path, newValue, oldValue, depth) ==
  NotifyPatterns(S, NotifiedPatterns(path), 1, path, newValue, oldValue, depth)

\* a set that notifies before it assigns the leaf
SetPathNotifyFirst(S, path, newValue, sameRef, depth) ==
  LET w == SetWalk(S.tree, path, 1, S.tree[<<>>])
      old == Prop(w.tree, Parent(path), w.target, LastKey(path))
  IN IF w.threw \/ old.threw \/ ~IsObject(w.target)
       THEN [S EXCEPT !.threw = TRUE]
       ELSE LET S1 == IF StrictNotEqual(old.val, newValue, sameRef)
                        THEN NotifyObservers([S EXCEPT !.tree = w.tree], path, newValue, old.val, depth)
                        ELSE [S EXCEPT !.tree = w.tree]
            IN [S1 EXCEPT !.tree = StoreLeaf(@, path, newValue, sameRef), !.threw = FALSE]

SetPath(S, path, newValue, sameRef, depth) ==
  LET w == SetWalk(S.tree, path, 1, S.tree[<<>>])
      old == Prop(w.tree, Parent(path), w.target, LastKey(path))
  IN IF w.threw \/ old.threw \/ ~IsObject(w.target)
       THEN [S EXCEPT !.threw = TRUE]
       ELSE LET S1 == [S EXCEPT !.tree = StoreLeaf(w.tree, path, newValue, sameRef),
                                !.writes = IF depth > 0 THEN Append(@, [path |-> path, at |-> Len(S.log)]) ELSE @,
                                !.threw = FALSE]
            IN IF StrictNotEqual(old.val, newValue, sameRef)
                 THEN NotifyObservers(S1, path, newValue, old.val, depth)
                 ELSE S1

----------------------------------------------------------------------------
(* increment(path, amount) and decrement(path, amount) *)

\* ToNumber: a number or NaN (an array converts through its string form: []
\* and [x] with x null or undefined give 0, [n] gives n)
ToNumber(tr, path, v) ==
  CASE v.t \in {"num", "bool"} -> Num(v.n)
    [] v.t = "null" -> Num(0)
    [] v.t = "str" -> IF v.n = 0 THEN Num(0) ELSE NaN
    [] v.t = "arr" ->
         IF KeysAt(tr, path) = {} THEN Num(0)
         ELSE IF KeysAt(tr, path) = {"0"}
           THEN (IF tr[Append(path, "0")].t = "num" THEN tr[Append(path, "0")]
                 ELSE IF IsNullish(tr[Append(path, "0")]) THEN Num(0) ELSE NaN)
         ELSE NaN
    [] OTHER -> NaN

Minus(a, b) == IF a.t = "nan" \/ b.t = "nan" THEN NaN ELSE Num(a.n - b.n)

\* Math.max(0, x): NaN if x is NaN
MathMax0(x) == IF x.t = "nan" THEN NaN ELSE IF x.n > 0 THEN x ELSE Num(0)

\* current + amount: a sum of numbers, or a concatenation (a longer string)
\* as soon as one operand is a string or an object
Plus(tr, path, a, b) ==
  IF a.t \in {"str", "wstr", "obj", "arr"} \/ b.t \in {"str", "wstr", "obj", "arr"}
    THEN Val(IF a.t = "wstr" \/ b.t = "wstr" THEN "wstr" ELSE "str",
             (IF IsString(a) THEN a.n ELSE 1) + (IF IsString(b) THEN b.n ELSE 1))
  ELSE IF ToNumber(tr, path, a).t = "nan" \/ ToNumber(tr, path, b).t = "nan" THEN NaN
  ELSE Num(ToNumber(tr, path, a).n + ToNumber(tr, path, b).n)

\* this.get(path) || 0
OrZero(v) == IF Truthy(v) THEN v ELSE Num(0)

\* a decrement without the floor
DecrementValueNoFloor(tr, path, current, amount) ==
  Minus(ToNumber(tr, path, current), ToNumber(tr, path, amount))

DecrementValue(tr, path, current, amount) ==
  MathMax0(Minus(ToNumber(tr, path, current), ToNumber(tr, path, amount)))

Decrement(S, path, amount) ==
  LET g == Get(S.tree, path)
  IN IF g.threw THEN [S EXCEPT !.threw = TRUE]
     ELSE SetPath(S, path, DecrementValue(S.tree, path, OrZero(g.val), amount), FALSE, 0)

Increment(S, path, amount) ==
  LET g == Get(S.tree, path)
  IN IF g.threw THEN [S EXCEPT !.threw = TRUE]
     ELSE SetPath(S, path, Plus(S.tree, path, OrZero(g.val), amount), FALSE, 0)

----------------------------------------------------------------------------
(* addObserver(path, callback) and the unsubscribe function it returns *)

\* observers maps a pattern to the callbacks of its Set, in insertion order;
\* adding a callback the Set already holds changes nothing
AddToSet(obs, pattern, cb) ==
  IF pattern \notin DOMAIN obs THEN obs @@ (pattern :> <<cb>>)
  ELSE IF \E k \in 1..Len(obs[pattern]) : obs[pattern][k] = cb THEN obs
  ELSE [obs EXCEPT ![pattern] = Append(@, cb)]

Without(seq, x) == SelectSeq(seq, LAMBDA y : y # x)

\* callbacks.delete(callback), and the pattern is dropped with its last callback
DeleteFromSet(obs, pattern, cb) ==
  IF pattern \notin DOMAIN obs THEN obs
  ELSE IF Without(obs[pattern], cb) = <<>>
    THEN [q \in DOMAIN obs \ {pattern} |-> obs[q]]
  ELSE [obs EXCEPT ![pattern] = Without(@, cb)]

IsRegistered(obs, pattern, cb) ==
  pattern \in DOMAIN obs /\ \E k \in 1..Len(obs[pattern]) : obs[pattern][k] = cb

----------------------------------------------------------------------------
(* The persistence envelope: save(), load(), importSave(encodedSave) *)

\* the categories of the model, in the order save() lists and load() merges them
CategoryOrder == <<"resources", "market", "flags", "ui", "meta">>
Categories == {CategoryOrder[i] : i \in 1..Len(CategoryOrder)}

\* What localStorage holds under the save key.  kind is "absent" (getItem
\* returns null), "empty" (the empty string), "garbage" (text JSON.parse
\* rejects) or "json"; for "json", top is the parsed top-level value, version
\* and timestamp its members, and state the tree of its 'state' member (an
\* undefined root when the member is missing)
NoState == (<<>> :> Undefined)
Payload(kind, top, version, timestamp, state) ==
  [kind |-> kind, top |-> top, version |-> version, timestamp |-> timestamp, state |-> state]
Absent == Payload("absent", Undefined, Undefined, Undefined, NoState)

\* the string '2.0.0'
SaveVersion == Str(5)

\* JSON.stringify of one stored value: NaN becomes null, and so does an
\* undefined array element
JsonValue(tr, q) ==
  IF tr[q].t = "nan" THEN Null
  ELSE IF tr[q].t = "undef" THEN Null
  ELSE tr[q]

\* a property whose value is undefined is left out of its object
JsonKept(tr, q) ==
  \A i \in 1..Len(q) :
    tr[SubSeq(q, 1, i)].t = "undef" => tr[SubSeq(q, 1, i - 1)].t = "arr"

\* JSON.parse(JSON.stringify({resources: this.resources, ...}))
JsonState(tr) ==
  [q \in {r \in DOMAIN tr : r = <<>> \/ (r[1] \in Categories /\ JsonKept(tr, r))}
     |-> IF q = <<>> THEN Obj ELSE JsonValue(tr, q)]

\* a save that loses the persisted envelope when the medium rejects the write
SaveClearsOnFailure(tr, store, accepted, now) ==
  IF accepted
    THEN [ret |-> TRUE, storage |-> Payload("json", Obj, SaveVersion, Num(now), JsonState(tr))]
    ELSE [ret |-> FALSE, storage |-> Absent]

\* save(): false when setItem throws, true with the envelope written
Save(tr, store, accepted, now) ==
  IF accepted
    THEN [ret |-> TRUE, storage |-> Payload("json", Obj, SaveVersion, Num(now), JsonState(tr))]
    ELSE [ret |-> FALSE, storage |-> store]

\* the paths of doc that Object.assign copies into the category c: the
\* members of doc's category when that is a truthy object (a falsy one is
\* replaced by {}, a number or a boolean has no own keys)
SourceKeys(doc, c) ==
  IF <<c>> \in DOMAIN doc /\ IsObject(doc[<<c>>]) THEN KeysAt(doc, <<c>>) ELSE {}

\* the character keys of a string given as the category
SourceIsString(doc, c) == <<c>> \in DOMAIN doc /\ IsString(doc[<<c>>]) /\ doc[<<c>>].n > 0

Copied(doc, c) == {r \in DOMAIN doc : Len(r) >= 2 /\ r[1] = c}

\* a load that replaces the live category by the saved one
AssignCategoryReplace(tr, doc, c) ==
  IF <<c>> \notin DOMAIN doc THEN [threw |-> FALSE, tree |-> tr]
  ELSE [threw |-> FALSE,
        tree |-> [q \in {r \in DOMAIN tr : ~IsPrefix(<<c>>, r)}
                        \cup {r \in DOMAIN doc : IsPrefix(<<c>>, r)}
                    |-> IF IsPrefix(<<c>>, q) THEN doc[q] ELSE tr[q]]]

\* Object.assign(this[c], parsed.state[c] || {}): a TypeError when this[c] is
\* undefined or null (or a string whose character would be overwritten);
\* nothing is kept when this[c] is a primitive (the keys land on a wrapper);
\* otherwise each saved key replaces the live key with the saved value
AssignCategory(tr, doc, c) ==
  LET target == IF <<c>> \in DOMAIN tr THEN tr[<<c>>] ELSE Undefined
  IN IF IsNullish(target) THEN [threw |-> TRUE, tree |-> tr]
     ELSE IF IsString(target) /\ target.n > 0
             /\ ("0" \in SourceKeys(doc, c) \/ SourceIsString(doc, c))
       THEN [threw |-> TRUE, tree |-> tr]
     ELSE IF ~IsObject(target) THEN [threw |-> FALSE, tree |-> tr]
     ELSE IF SourceIsString(doc, c)
       THEN [threw |-> FALSE,
             tree |-> Bind(WithoutBelow(tr, <<c, "0">>), <<c, "0">>, Val(doc[<<c>>].t, 1))]
     ELSE [threw |-> FALSE,
           tree |-> [q \in {r \in DOMAIN tr :
                              ~\E k \in SourceKeys(doc, c) : IsPrefix(<<c, k>>, r)}
                           \cup Copied(doc, c)
                       |-> IF q \in Copied(doc, c) THEN doc[q] ELSE tr[q]]]

RECURSIVE AssignCategories(_, _, _)
AssignCategories(tr, doc, i) ==
  IF i > Len(CategoryOrder) THEN [threw |-> FALSE, tree |-> tr]
  ELSE LET r == AssignCategory(tr, doc, CategoryOrder[i])
       IN IF r.threw THEN r ELSE AssignCategories(r.tree, doc, i + 1)

\* a validation that forgets the version
InvalidFormatStateOnly(store) == ~Truthy(store.state[<<>>])

\* !parsed.state || !parsed.version
InvalidFormat(store) == ~Truthy(store.state[<<>>]) \/ ~Truthy(store.version)

\* the members of the state object, when parsed.state is an object; the
\* members of any other truthy value are all undefined
StateDoc(store) == IF IsObject(store.state[<<>>]) THEN store.state ELSE NoState

\* load()
Load(tr, store) ==
  IF store.kind \in {"absent", "empty"} THEN [ret |-> FALSE, tree |-> tr]
  ELSE IF store.kind = "garbage" THEN [ret |-> FALSE, tree |-> tr]
  ELSE IF IsNullish(store.top) THEN [ret |-> FALSE, tree |-> tr]
  ELSE IF InvalidFormat(store) THEN [ret |-> FALSE, tree |-> tr]
  ELSE LET r == AssignCategories(tr, StateDoc(store), 1)
       IN [ret |-> ~r.threw, tree |-> r.tree]

\* importSave(encodedSave): atob throws on text that is not base64, setItem
\* may throw; otherwise the decoded text is stored and loaded
ImportSave(tr, store, valid, decoded, accepted) ==
  IF ~valid \/ ~accepted THEN [ret |-> FALSE, tree |-> tr, storage |-> store]
  ELSE [ret |-> Load(tr, decoded).ret, tree |-> Load(tr, decoded).tree, storage |-> decoded]

\* the persisted text holds a character btoa cannot encode (one above U+00FF,
\* which JSON.stringify writes as it is); text decoded by atob never does
HasWide(store) == \E q \in DOMAIN store.state : store.state[q].t = "wstr"

\* btoa(saveData): the base64 text, which atob decodes to saveData again
Btoa(store) == [valid |-> TRUE, decoded |-> store]

\* exportSave(): null when getItem returns null or '', an InvalidCharacterError
\* out of btoa (there is no try/catch), otherwise the encoded payload
ExportSave(store) ==
  IF store.kind \in {"absent", "empty"} THEN [threw |-> FALSE, ret |-> Null]
  ELSE IF HasWide(store) THEN [threw |-> TRUE, ret |-> Undefined]
  ELSE [threw |-> FALSE, ret |-> Btoa(store)]

\* Object.assign(this, new GameState()): every own property of a fresh store
\* replaces the live one of the same name; the other properties of the
\* instance stay
ResetTree(tr) ==
  [q \in {r \in DOMAIN tr : r # <<>> /\ r[1] \notin KeysAt(DefaultTree, <<>>)}
         \cup DOMAIN DefaultTree
     |-> IF q \in DOMAIN DefaultTree THEN DefaultTree[q] ELSE tr[q]]

\* reset(): the assignment, then this.save(), whose result is dropped
Reset(tr, store, accepted, now) ==
  [tree |-> ResetTree(tr), storage |-> Save(ResetTree(tr), store, accepted, now).storage]

----------------------------------------------------------------------------
(* The Tick Scheduler: GameLoop *)

DISPLAY_UPDATE_INTERVAL == 16
AUTOSAVE_INTERVAL == 30000
cleanupInterval == 60000

\* the GameLoop after its constructor ran at clock value now; the id 0 stands
\* for animationFrameId = null (the ids requestAnimationFrame returns are
\* positive)
NewGameLoop(now) ==
  [running |-> FALSE, lastUpdate |-> now, lastRender |-> now, lastAutosave |-> now,
   lastCleanup |-> now, updateHandlers |-> <<>>, renderHandlers |-> <<>>,
   animationFrameId |-> 0]

NoHistory == [update |-> <<>>, render |-> <<>>, autosave |-> <<>>, cleanup |-> <<>>]

\* What the handlers of the model do when invoked: "counter" calls
\* state.increment('resources.clips'), "reader" only reads the state,
\* "thrower" throws an Error, "throwsNull" throws null, "stopper" calls
\* gameLoop.stop(), "adder" registers "counter" on the list it is on, and
\* "once" removes itself from the list it is on
Handlers == {"counter", "reader", "thrower", "throwsNull", "stopper", "adder", "once"}
CounterPath == <<"resources", "clips">>
TicksPath == <<"ui", "ticks">>

\* the value of an expression computed once: the one element of {expression}
Only(S) == CHOOSE x \in S : TRUE

\* A scheduler in the middle of a call: the GameLoop, the browser's pending
\* frame callbacks, the store, what ran so far, and whether an exception is
\* propagating out of the call
Machine(gl, fr, nf, tr, obs, store, hist) ==
  [gl |-> gl, frames |-> fr, nextFrame |-> nf, tree |-> tr, observers |-> obs,
   storage |-> store, trace |-> <<>>, history |-> hist, threw |-> FALSE]

HandlersOf(gl, act) == IF act = "update" THEN gl.updateHandlers ELSE gl.renderHandlers

WithHandlers(gl, act, hs) ==
  IF act = "update" THEN [gl EXCEPT !.updateHandlers = hs]
  ELSE [gl EXCEPT !.renderHandlers = hs]

\* addUpdateHandler / addRenderHandler: anything that is no function is ignored
AddHandler(gl, act, h) ==
  IF h \in Handlers THEN WithHandlers(gl, act, Append(HandlersOf(gl, act), h)) ELSE gl

\* indexOf(handler), 0 when the list does not hold it
IndexOf(hs, h) ==
  IF \E k \in 1..Len(hs) : hs[k] = h
    THEN CHOOSE k \in 1..Len(hs) : hs[k] = h /\ \A j \in 1..(k - 1) : hs[j] # h
    ELSE 0

\* removeUpdateHandler / removeRenderHandler: splice(index, 1)
RemoveHandler(gl, act, h) ==
  LET hs == HandlersOf(gl, act)
      k == IndexOf(hs, h)
  IN IF k = 0 THEN gl
     ELSE WithHandlers(gl, act, SubSeq(hs, 1, k - 1) \o SubSeq(hs, k + 1, Len(hs)))

\* stop()
Stop(M) ==
  [M EXCEPT !.gl.running = FALSE,
            !.gl.animationFrameId = 0,
            !.frames = IF M.gl.animationFrameId # 0 THEN @ \ {M.gl.animationFrameId} ELSE @]

\* one entry of the trace: a pass of an activity (h = "pass") or one handler
\* invoked in it, with the iteration's clock value and the tick counter and
\* the counter the store held when it started
Event(M, act, h, now, caught) ==
  [act |-> act, h |-> h, at |-> now, caught |-> caught,
   ticks |-> Get(M.tree, TicksPath).val, clips |-> Get(M.tree, CounterPath).val]

\* handler(deltaTime, gameState) or handler(gameState) inside its try/catch;
\* the catch calls errorHandler.handleError(error, ...), which reads
\* error.message and so throws a TypeError itself when error is null
InvokeHandler(M, act, h, now) ==
  LET M1 == [M EXCEPT !.trace = Append(@, Event(M, act, h, now, h \in {"thrower", "throwsNull"}))]
  IN CASE h = "counter" ->
            [M1 EXCEPT !.tree = Increment(Store(M.tree, M.observers), CounterPath, Num(1)).tree]
       [] h = "throwsNull" -> [M1 EXCEPT !.threw = TRUE]
       [] h = "stopper" -> Stop(M1)
       [] h = "adder" -> [M1 EXCEPT !.gl = AddHandler(@, act, "counter")]
       [] h = "once" -> [M1 EXCEPT !.gl = RemoveHandler(@, act, "once")]
       [] OTHER -> M1

\* for (const handler of this.updateHandlers): the array iterator reads the
\* list as it is when it reaches index i
RECURSIVE RunHandlers(_, _, _, _)
RunHandlers(M, act, i, now) ==
  IF i > Len(HandlersOf(M.gl, act)) THEN M
  ELSE Only({IF m.threw THEN m ELSE RunHandlers(m, act, i + 1, now) :
               m \in {InvokeHandler(M, act, HandlersOf(M.gl, act)[i], now)}})

\* the start of a pass
BeginPass(M, act, now) ==
  [M EXCEPT !.trace = Append(@, Event(M, act, "pass", now, FALSE)),
            !.history[act] = Append(@, now)]

\* update(deltaTime): the tick counter, then the handlers; performanceMonitor
\* .measure rethrows what escapes
Update(M, now) ==
  Only({IF R.threw THEN [m EXCEPT !.threw = TRUE]
        ELSE RunHandlers([m EXCEPT !.tree = R.tree], "update", 1, now) :
          m \in {BeginPass(M, "update", now)},
          R \in {Increment(Store(M.tree, M.observers), TicksPath, Num(1))}})

\* render()
Render(M, now) ==
  Only({RunHandlers(m, "render", 1, now) : m \in {BeginPass(M, "render", now)}})

\* autosave(): gameState.save() inside a try/catch
Autosave(M, now, accepted) ==
  [BeginPass(M, "autosave", now) EXCEPT !.storage = Save(M.tree, M.storage, accepted, now).storage]

\* cleanup(): housekeeping of the renderer, the batcher and the memory
\* monitor inside a try/catch
Cleanup(M, now) == BeginPass(M, "cleanup", now)

\* an activity that runs when due and leaves its timestamp alone
ActivityNoStamp(M, due, pass, stamp, now) ==
  IF M.threw \/ ~due THEN M ELSE Only({p : p \in {pass}})

\* one activity of loop(): its pass when it is due, then its timestamp; an
\* exception that escapes the pass ends loop() there
Activity(M, due, pass, stamp, now) ==
  IF M.threw \/ ~due THEN M
  ELSE Only({IF p.threw THEN p ELSE [p EXCEPT !.gl[stamp] = now] : p \in {pass}})

\* this.animationFrameId = requestAnimationFrame(() => this.loop()), unless
\* an exception has ended loop() before
Arm(M) ==
  IF M.threw THEN M
  ELSE [M EXCEPT !.gl.animationFrameId = M.nextFrame,
                 !.frames = @ \cup {M.nextFrame},
                 !.nextFrame = @ + 1]

\* a loop that does not look at the running flag
LoopWhileStopped(M, now, accepted) ==
  Only({Arm(m4) : m4 \in
      {Activity(m3, now - M.gl.lastCleanup >= cleanupInterval,
               Cleanup(m3, now), "lastCleanup", now) : m3 \in
        {Activity(m2, now - M.gl.lastAutosave >= AUTOSAVE_INTERVAL,
                 Autosave(m2, now, accepted), "lastAutosave", now) : m2 \in
          {Activity(m1, now - M.gl.lastRender >= DISPLAY_UPDATE_INTERVAL,
                   Render(m1, now), "lastRender", now) : m1 \in
            {Activity(M, now - M.gl.lastUpdate > 0,
                     Update(M, now), "lastUpdate", now)}}}}})

\* a loop that renders before it updates
LoopRenderFirst(M, now, accepted) ==
  IF ~M.gl.running THEN M
  ELSE Only({Arm(m4) : m4 \in
      {Activity(m3, now - M.gl.lastCleanup >= cleanupInterval,
               Cleanup(m3, now), "lastCleanup", now) : m3 \in
        {Activity(m2, now - M.gl.lastAutosave >= AUTOSAVE_INTERVAL,
                 Autosave(m2, now, accepted), "lastAutosave", now) : m2 \in
          {Activity(m1, now - M.gl.lastUpdate > 0,
                   Update(m1, now), "lastUpdate", now) : m1 \in
            {Activity(M, now - M.gl.lastRender >= DISPLAY_UPDATE_INTERVAL,
                     Render(M, now), "lastRender", now)}}}}})

\* loop(): the four deltas are taken from the clock sample and the
\* timestamps loop() starts with; the due activities run in the order update
\* (m1), render (m2), autosave (m3), cleanup (m4), and the next frame is
\* requested
Loop(M, now, accepted) ==
  IF ~M.gl.running THEN M
  ELSE Only({Arm(m4) : m4 \in
      {Activity(m3, now - M.gl.lastCleanup >= cleanupInterval,
               Cleanup(m3, now), "lastCleanup", now) : m3 \in
        {Activity(m2, now - M.gl.lastAutosave >= AUTOSAVE_INTERVAL,
                 Autosave(m2, now, accepted), "lastAutosave", now) : m2 \in
          {Activity(m1, now - M.gl.lastRender >= DISPLAY_UPDATE_INTERVAL,
                   Render(m1, now), "lastRender", now) : m1 \in
            {Activity(M, now - M.gl.lastUpdate > 0,
                     Update(M, now), "lastUpdate", now)}}}}})

\* start(): nothing when running; otherwise the flag, three of the four
\* timestamps, and a first loop()
Start(M, now, accepted) ==
  IF M.gl.running THEN M
  ELSE Loop([M EXCEPT !.gl.running = TRUE, !.gl.lastUpdate = now,
                      !.gl.lastRender = now, !.gl.lastAutosave = now],
            now, accepted)

----------------------------------------------------------------------------
(* The phase manager: its asynchronous calls are tasks that run to their   *)
(* next pending import, initializer or hook and go on when that settles    *)

Phases == {"human", "space", "endgame"}

phaseDependencies(phase) ==
  CASE phase = "human" -> <<"production", "market", "computing", "projects">>
    [] phase = "space" -> <<"combat", "swarm", "exploration">>
    [] OTHER -> <<>>

\* the modules loadModule imports; every other name is part of the main bundle
DynamicModules == {"combat", "swarm", "exploration"}

\* the modules whose default export has an init method (combat.js has no
\* default export)
HasInit == {"swarm", "exploration"}

\* the order in which loadAllModules walks the dependency lists
AllDependencies ==
  phaseDependencies("human") \o phaseDependencies("space") \o phaseDependencies("endgame")

NewPhaseManager ==
  [loadedModules |-> {}, phaseHandlers |-> <<>>, currentPhase |-> "human",
   lazyLoadingEnabled |-> TRUE]

\* what a hook or an initializer does: it completes, it fails with an Error,
\* or it fails with null
Outcomes == {"ok", "Error", "null"}

\* errorHandler.handleError(error, ...) reads error.message first
HandleErrorThrows(error) == error = "null"

DeterminePhase(tr) ==
  IF Truthy(Get(tr, <<"flags", "endgame">>).val) THEN "endgame"
  ELSE IF Truthy(Get(tr, <<"flags", "space">>).val) THEN "space"
  ELSE "human"

\* the observers setupPhaseWatchers registers
WatchedPath(phase) == <<"flags", phase>>
Watcher(phase) == IF phase = "space" THEN "spaceWatcher" ELSE "endgameWatcher"
Watchers == {Watcher("space"), Watcher("endgame")}
WatcherPhase(cb) == IF cb = Watcher("space") THEN "space" ELSE "endgame"

SetupPhaseWatchers(obs) ==
  AddToSet(AddToSet(obs, WatchedPath("space"), Watcher("space")),
           WatchedPath("endgame"), Watcher("endgame"))

\* a call of init, transitionToPhase, loadPhase, loadModule or loadAllModules:
\* queue holds the modules its loop has still to load, pc what it awaits
Task(root, arg) ==
  [root |-> root, arg |-> arg, stage |-> "try", pc |-> "run", queue |-> <<>>,
   mod |-> "", hook |-> "", state |-> "pending", value |-> "undefined"]

\* the phase manager, the observers of the store, one task and the counters
Async(pm, obs, t, inits) == [pm |-> pm, obs |-> obs, t |-> t, initialized |-> inits]

\* the promise of the task is resolved or rejected
Settled(X, state, value) ==
  [X EXCEPT !.t.pc = "settled", !.t.state = state, !.t.value = value,
            !.t.queue = <<>>, !.t.mod = "", !.t.hook = ""]

\* a hook is called and its promise awaited
AwaitHook(X, pc, key) ==
  [X EXCEPT !.t.pc = pc, !.t.hook = X.pm.phaseHandlers[key], !.t.queue = <<>>]

\* the loop over the dependencies is over
QueueDone(X) ==
  CASE X.t.root = "loadModule" -> Settled(X, "resolved", X.t.value)
    [] X.t.root = "transitionToPhase" ->
         IF <<X.t.arg, "enter">> \in DOMAIN X.pm.phaseHandlers
           THEN AwaitHook([X EXCEPT !.pm.currentPhase = X.t.arg], "enter", <<X.t.arg, "enter">>)
           ELSE Settled([X EXCEPT !.pm.currentPhase = X.t.arg], "resolved", "undefined")
    [] X.t.root = "init" /\ X.t.stage = "try" ->
         Settled([X EXCEPT !.obs = SetupPhaseWatchers(@)], "resolved", "undefined")
    [] OTHER -> Settled(X, "resolved", "undefined")

\* loadModule(name) for the modules of the queue, one after the other, until
\* one of them has to be imported: a cached module and a module of the main
\* bundle are returned at once
RECURSIVE RunQueue(_)
RunQueue(X) ==
  IF X.t.queue = <<>> THEN QueueDone(X)
  ELSE IF Head(X.t.queue) \in X.pm.loadedModules
    THEN Only({RunQueue(Y) : Y \in {[X EXCEPT !.t.value = Head(X.t.queue), !.t.queue = Tail(@)]}})
  ELSE IF Head(X.t.queue) \notin DynamicModules
    THEN Only({RunQueue(Y) : Y \in {[X EXCEPT !.t.value = "null", !.t.queue = Tail(@)]}})
  ELSE [X EXCEPT !.t.pc = "import", !.t.mod = Head(X.t.queue)]

\* the awaited loadModule call is rejected: the catch block of loadModule has
\* thrown
QueueFailed(X, error) ==
  CASE X.t.root = "transitionToPhase" ->
         IF HandleErrorThrows(error) THEN Settled(X, "rejected", "TypeError")
         ELSE Settled(X, "resolved", "undefined")
    [] X.t.root = "init" /\ X.t.stage = "try" ->
         IF HandleErrorThrows(error) THEN Settled(X, "rejected", "TypeError")
         ELSE RunQueue([X EXCEPT !.pm.lazyLoadingEnabled = FALSE, !.t.stage = "fallback",
                                 !.t.mod = "", !.t.queue = AllDependencies])
    [] OTHER -> Settled(X, "rejected", error)

\* loadedModules.set(moduleName, module); return module
ModuleLoaded(X) ==
  RunQueue([X EXCEPT !.pm.loadedModules = @ \cup {X.t.mod}, !.t.value = X.t.mod,
                     !.t.mod = "", !.t.queue = Tail(@)])

\* the catch block of loadModule: handleError, return null
ModuleFailed(X, error) ==
  IF HandleErrorThrows(error) THEN QueueFailed([X EXCEPT !.t.mod = ""], "TypeError")
  ELSE RunQueue([X EXCEPT !.t.value = "null", !.t.mod = "", !.t.queue = Tail(@)])

\* import() has settled
ImportSettled(X, outcome) ==
  IF outcome # "ok" THEN ModuleFailed(X, outcome)
  ELSE IF X.t.mod \in HasInit
    THEN [X EXCEPT !.t.pc = "init", !.initialized[X.t.mod] = @ + 1]
  ELSE ModuleLoaded(X)

\* module.default.init() has settled
InitSettled(X, outcome) ==
  IF outcome = "ok" THEN ModuleLoaded(X) ELSE ModuleFailed(X, outcome)

\* the exit hook has settled
ExitSettled(X) ==
  IF X.t.hook = "ok"
    THEN RunQueue([X EXCEPT !.t.hook = "", !.t.queue = phaseDependencies(X.t.arg)])
  ELSE IF HandleErrorThrows(X.t.hook) THEN Settled(X, "rejected", "TypeError")
  ELSE Settled(X, "resolved", "undefined")

\* the enter hook has settled
EnterSettled(X) ==
  IF X.t.hook = "ok" \/ ~HandleErrorThrows(X.t.hook) THEN Settled(X, "resolved", "undefined")
  ELSE Settled(X, "rejected", "TypeError")

\* transitionToPhase(newPhase) up to its first pending await
TransitionToPhase(X) ==
  IF <<X.pm.currentPhase, "exit">> \in DOMAIN X.pm.phaseHandlers
    THEN AwaitHook(X, "exit", <<X.pm.currentPhase, "exit">>)
    ELSE RunQueue([X EXCEPT !.t.queue = phaseDependencies(X.t.arg)])

\* init() up to its first pending await
InitPhases(X, tr) ==
  RunQueue([X EXCEPT !.pm.currentPhase = DeterminePhase(tr),
                     !.t.queue = phaseDependencies(DeterminePhase(tr))])

\* the call a new task starts with
Started(X, tr) ==
  CASE X.t.root = "init" -> InitPhases(X, tr)
    [] X.t.root = "transitionToPhase" -> TransitionToPhase(X)
    [] X.t.root = "loadPhase" -> RunQueue([X EXCEPT !.t.queue = phaseDependencies(X.t.arg)])
    [] X.t.root = "loadModule" -> RunQueue([X EXCEPT !.t.queue = <<X.t.arg>>])
    [] OTHER -> RunQueue([X EXCEPT !.t.queue = AllDependencies])

\* the phase a watcher of the store starts a transition to, after a set that
\* has invoked the callbacks of lg: no phase when no watcher was invoked, or
\* the value is falsy, or the phase is the current one
Woken(lg, pm) ==
  {WatcherPhase(lg[k].cb) : k \in {j \in 1..Len(lg) :
      /\ lg[j].cb \in Watchers
      /\ Truthy(lg[j].new)
      /\ pm.currentPhase # WatcherPhase(lg[j].cb)}}

\* a bulk assignment that tells the observers of the phase flags, as a set of
\* each flag would
AssignedBySet(S, tr) ==
  Only({IF StrictNotEqual(Get(S.tree, WatchedPath("endgame")).val, Get(tr, WatchedPath("endgame")).val, FALSE)
          THEN NotifyObservers(S1, WatchedPath("endgame"), Get(tr, WatchedPath("endgame")).val,
                               Get(S.tree, WatchedPath("endgame")).val, 0)
          ELSE S1 : S1 \in
    {IF StrictNotEqual(Get(S.tree, WatchedPath("space")).val, Get(tr, WatchedPath("space")).val, FALSE)
       THEN NotifyObservers([S EXCEPT !.tree = tr], WatchedPath("space"), Get(tr, WatchedPath("space")).val,
                            Get(S.tree, WatchedPath("space")).val, 0)
       ELSE [S EXCEPT !.tree = tr]}})

\* the bulk assignment of load() and reset(): Object.assign writes the
\* members, notifyObservers is not called
Assigned(S, tr) == [S EXCEPT !.tree = tr]

----------------------------------------------------------------------------
(* The DOM batcher: pending mutations per category, the display-refresh    *)
(* callback that flushes them, and the elements of the page                *)

\* the elements of the page; every other id has no element
Elements == {"a", "b"}

\* the elements of the page the renderer writes to
RenderedElements == {"clips", "spaceDisplay", "btnMakePaperclip"}

NewElement ==
  [text |-> "", html |-> "", display |-> "", color |-> "", classList |-> {}, disabled |-> FALSE]

NewDocument == [id \in Elements \cup RenderedElements |-> NewElement]

\* frameId 0 is null
NewDOMBatcher ==
  [pendingUpdates |-> <<>>, pendingStyles |-> <<>>, pendingClasses |-> <<>>,
   pendingVisibility |-> <<>>, frameId |-> 0, enabled |-> TRUE]

\* the four categories in the order of the blocks of flush(), each with the
\* collection it is queued in
FlushOrder == <<"visibility", "style", "class", "text">>
Pending(cat) ==
  CASE cat = "visibility" -> "pendingVisibility"
    [] cat = "style" -> "pendingStyles"
    [] cat = "class" -> "pendingClasses"
    [] OTHER -> "pendingUpdates"

\* the text an element shows once its innerHTML is html
TextOf(html) == IF html = "<b>x</b>" THEN "x" ELSE html

\* a queued mutation: its target, its payload, the call that queued it, and
\* whether a flush has run it already
Mutation(id, payload, at) == [id |-> id, payload |-> payload, at |-> at, ran |-> FALSE]

\* Map.set(id, fn): a new key goes last, a key that is present keeps its place
MapSet(pending, e) ==
  IF \E k \in 1..Len(pending) : pending[k].id = e.id
    THEN [k \in 1..Len(pending) |-> IF pending[k].id = e.id THEN e ELSE pending[k]]
    ELSE Append(pending, e)

\* Set.add(JSON.stringify({ elementId, visible })): a string that is present
\* is not added again
SetAdd(pending, e) ==
  IF \E k \in 1..Len(pending) : pending[k].id = e.id /\ pending[k].payload = e.payload
    THEN pending
    ELSE Append(pending, e)

\* the mutation throws: classes.add is read from null or undefined, once the
\* element has been found
Throws(doc, cat, e) == cat = "class" /\ e.payload.isNull /\ e.id \in DOMAIN doc

\* what one mutation does to its element
Mutated(el, cat, payload) ==
  CASE cat = "visibility" -> [el EXCEPT !.display = IF payload THEN "" ELSE "none"]
    [] cat = "style" -> IF payload = "null" THEN el
                        ELSE IF payload = "display:block" THEN [el EXCEPT !.display = "block"]
                        ELSE IF payload = "display:none" THEN [el EXCEPT !.display = "none"]
                        ELSE [el EXCEPT !.color = payload]
    [] cat = "class" -> [el EXCEPT !.classList = (@ \cup payload.add) \ payload.remove]
    [] payload.html -> IF el.html # payload.s THEN [el EXCEPT !.html = payload.s, !.text = TextOf(payload.s)]
                       ELSE el
    [] OTHER -> IF el.text # payload.s THEN [el EXCEPT !.text = payload.s, !.html = payload.s]
                ELSE el

\* getElement(id) and the mutation, when there is an element
Mutate(doc, cat, e) ==
  IF e.id \in DOMAIN doc THEN [doc EXCEPT ![e.id] = Mutated(@, cat, e.payload)] ELSE doc

\* what was done to the page: a mutation of a category, or a read
Done(cat, e, direct, threw) ==
  [cat |-> cat, id |-> e.id, payload |-> e.payload, at |-> e.at, again |-> e.ran,
   direct |-> direct, threw |-> threw]

\* the batcher, the page and the pending callbacks, during one call
Page(b, doc, cbs, nc, q) ==
  [b |-> b, doc |-> doc, callbacks |-> cbs, nextCallback |-> nc, queued |-> q,
   applied |-> <<>>, threw |-> FALSE, ret |-> Undefined]

\* one for...of loop of flush(), from entry i of the collection on
RECURSIVE RunPending(_, _, _, _)
RunPending(P, cat, pending, i) ==
  IF i > Len(pending) THEN P
  ELSE IF Throws(P.doc, cat, pending[i])
    THEN [P EXCEPT !.applied = Append(@, Done(cat, pending[i], FALSE, TRUE)), !.threw = TRUE]
  ELSE Only({RunPending(Q, cat, pending, i + 1) : Q \in
         {[P EXCEPT !.doc = Mutate(@, cat, pending[i]),
                    !.applied = Append(@, Done(cat, pending[i], FALSE, FALSE))]}})

\* the mutations of the collection that ran before one of them threw stay
\* queued
MarkRan(pending, n) ==
  [k \in 1..Len(pending) |-> IF k < n THEN [pending[k] EXCEPT !.ran = TRUE] ELSE pending[k]]

\* the targets the collection has mutations for
Targets(pending) == {pending[k].id : k \in 1..Len(pending)}

\* one block of flush(): the loop, then clear(); nothing when an earlier block
\* has thrown
FlushBlock(P, cat) ==
  IF P.threw THEN P
  ELSE Only({IF Q.threw
               THEN [Q EXCEPT !.b[Pending(cat)] = MarkRan(@, Len(Q.applied) - Len(P.applied))]
               ELSE [Q EXCEPT !.b[Pending(cat)] = <<>>,
                              !.queued = [k \in DOMAIN @ \ ({cat} \X Targets(P.b[Pending(cat)])) |-> @[k]]]
             : Q \in {RunPending(P, cat, P.b[Pending(cat)], 1)}})

\* flush() begins: frameId = null
FlushBegins(P) ==
  [P EXCEPT !.b.frameId = 0,
            !.applied = Append(@, [cat |-> "flush", id |-> "", payload |-> Undefined, at |-> 0,
                                   again |-> FALSE, direct |-> FALSE, threw |-> FALSE])]

\* a catch block whose handleError is given an Error
Caught(P) == [P EXCEPT !.threw = FALSE]

\* a flush that writes the content first
FlushContentFirst(P) ==
  Only({Caught(P4) : P4 \in
    {FlushBlock(P3, "class") : P3 \in
      {FlushBlock(P2, "style") : P2 \in
        {FlushBlock(P1, "visibility") : P1 \in
          {FlushBlock(P0, "text") : P0 \in {FlushBegins(P)}}}}}})

\* flush()
Flush(P) ==
  Only({Caught(P4) : P4 \in
    {FlushBlock(P3, FlushOrder[4]) : P3 \in
      {FlushBlock(P2, FlushOrder[3]) : P2 \in
        {FlushBlock(P1, FlushOrder[2]) : P1 \in
          {FlushBlock(P0, FlushOrder[1]) : P0 \in {FlushBegins(P)}}}}}})

\* scheduleUpdate()
ScheduleUpdate(P) ==
  IF P.b.frameId # 0 THEN P
  ELSE [P EXCEPT !.b.frameId = P.nextCallback,
                 !.callbacks = @ \cup {P.nextCallback},
                 !.nextCallback = @ + 1]

\* updateText, updateHTML, updateStyles, updateClasses and updateVisibility:
\* with batching disabled the mutation is done at once, and what it throws
\* reaches the caller
UpdateElement(P, cat, e) ==
  IF ~P.b.enabled
    THEN IF Throws(P.doc, cat, e)
           THEN [P EXCEPT !.applied = Append(@, Done(cat, e, TRUE, TRUE)), !.threw = TRUE]
           ELSE [P EXCEPT !.doc = Mutate(@, cat, e),
                          !.applied = Append(@, Done(cat, e, TRUE, FALSE))]
    ELSE ScheduleUpdate(
           [P EXCEPT !.b[Pending(cat)] = IF cat = "visibility" THEN SetAdd(@, e) ELSE MapSet(@, e),
                     !.queued = (<<cat, e.id>> :> e.payload) @@ @])

\* the properties read() flushes for
layoutProperties ==
  {"offsetWidth", "offsetHeight", "offsetTop", "offsetLeft", "clientWidth", "clientHeight",
   "clientTop", "clientLeft", "scrollWidth", "scrollHeight", "scrollTop", "scrollLeft",
   "getBoundingClientRect"}

\* the value read: what the element is like at that moment
Reading(P, id, property) ==
  [P EXCEPT !.ret = P.doc[id],
            !.applied = Append(@, [cat |-> "read", id |-> id, payload |-> property, at |-> 0,
                                   again |-> FALSE, direct |-> TRUE, threw |-> FALSE])]

\* a read that never flushes
ReadNoFlush(P, id, property) ==
  IF id \notin DOMAIN P.doc THEN [P EXCEPT !.ret = Null]
  ELSE Reading(P, id, property)

\* read(elementId, property)
Read(P, id, property) ==
  IF id \notin DOMAIN P.doc THEN [P EXCEPT !.ret = Null]
  ELSE IF property \in layoutProperties
    THEN Only({Reading(Q, id, property) : Q \in {Flush(P)}})
  ELSE Reading(P, id, property)

\* setEnabled(enabled)
SetEnabled(P, enabled) ==
  IF enabled THEN [P EXCEPT !.b.enabled = TRUE]
  ELSE Flush([P EXCEPT !.b.enabled = FALSE])

\* the functions given to batch(): one queues a content, a class, a style
\* and a visibility mutation for one element, in this order; one queues a
\* content mutation and throws
UpdateFns == {"reversed", "throws", "throwsNull"}

TextPayload(s) == [html |-> FALSE, s |-> s]
HTMLPayload(s) == [html |-> TRUE, s |-> s]
ClassPayload(add, remove) == [isNull |-> FALSE, add |-> add, remove |-> remove]
NullClasses == [isNull |-> TRUE, add |-> {}, remove |-> {}]

\* what the update function throws after its updates, if it throws
Thrown(fn) == IF fn = "throwsNull" THEN "null" ELSE "Error"

RunUpdateFn(P, fn, at) ==
  IF fn = "reversed"
    THEN Only({UpdateElement(Q3, "visibility", Mutation("a", FALSE, at)) : Q3 \in
           {UpdateElement(Q2, "style", Mutation("a", "red", at)) : Q2 \in
             {UpdateElement(Q1, "class", Mutation("a", ClassPayload({"on"}, {}), at)) : Q1 \in
               {UpdateElement(P, "text", Mutation("a", TextPayload("x"), at))}}}})
    ELSE [UpdateElement(P, "text", Mutation("a", TextPayload("x"), at)) EXCEPT !.threw = TRUE]

\* the catch block of batch: handleError(error, 'domBatcher.batch') throws in
\* its turn when error has no properties
BatchCatch(R, fn) == [R EXCEPT !.threw = R.threw /\ HandleErrorThrows(Thrown(fn))]

\* the finally block of batch: flush() and enabled = false when batching was
\* disabled; what the catch block threw goes on to the caller afterwards
BatchFinally(C, wasEnabled) ==
  IF wasEnabled THEN C
  ELSE Only({[Q EXCEPT !.b.enabled = FALSE, !.threw = C.threw] : Q \in {Flush(Caught(C))}})

\* batch(updateFn)
Batch(P, fn, at) ==
  Only({BatchFinally(C, P.b.enabled) : C \in
    {BatchCatch(R, fn) : R \in {RunUpdateFn([P EXCEPT !.b.enabled = TRUE], fn, at)}}})
----------------------------------------------------------------------------
(* The memory monitor, the frame history and the error log *)

maxFrameHistory == 60
maxLogSize == 100
maxSamples == 100
MaxIssues == 50
growthThreshold == 50

\* jsHeapSizeLimit of the page, in MB
LimitMB == 200

\* intervalId 0 is null
NewMemoryMonitor ==
  [enabled |-> FALSE, intervalId |-> 0, samples |-> <<>>, maxSamples |-> maxSamples,
   issues |-> <<>>]

Histories == {"frameTimes", "samples", "issues", "errorLog"}
NothingArrived == [h \in Histories |-> 0]

\* a push that discards the newest entry when the array is full
PushDropNewest(array, entry, max) ==
  IF Len(array) + 1 > max THEN array ELSE Append(array, entry)

\* array.push(entry); if (array.length > max) { array.shift(); }
PushShift(array, entry, max) ==
  IF Len(array) + 1 > max THEN Tail(Append(array, entry)) ELSE Append(array, entry)

\* the monitor, its timers, the frame history, the error log and the arrival
\* counters, during one call
Monitors(mm, active, next, times, lg, arr) ==
  [mm |-> mm, timers |-> active, nextTimer |-> next, frameTimes |-> times,
   errorLog |-> lg, arrived |-> arr]

\* setInterval(callback, monitoringInterval)
SetInterval(M) ==
  [M EXCEPT !.mm.intervalId = M.nextTimer, !.timers = @ \cup {M.nextTimer}, !.nextTimer = @ + 1]

\* errorHandler.log(level, message, context)
ErrorLog(M, level) ==
  [M EXCEPT !.errorLog = PushShift(@, [n |-> M.arrived.errorLog + 1, level |-> level], maxLogSize),
            !.arrived.errorLog = @ + 1]

\* recordFrame() while the monitor is active; warns when the periodic check
\* is due and checkPerformance finds an issue
RecordFrame(M, warns) ==
  Only({IF warns THEN ErrorLog(M1, "warn") ELSE M1 : M1 \in
    {[M EXCEPT !.frameTimes = PushShift(@, M.arrived.frameTimes + 1, maxFrameHistory),
               !.arrived.frameTimes = @ + 1]}})

\* reportIssue(type, details)
ReportIssue(M, type) ==
  Only({ErrorLog(M1, "warn") : M1 \in
    {[M EXCEPT !.mm.issues = PushShift(@, [n |-> M.arrived.issues + 1, type |-> type], MaxIssues),
               !.arrived.issues = @ + 1]}})

\* takeSample(): usedMB is what performance.memory reports, 0 when the
\* browser has no performance.memory
TakeSample(M, usedMB) ==
  IF usedMB = 0 THEN M
  ELSE [M EXCEPT !.mm.samples = PushShift(@, [n |-> M.arrived.samples + 1, usedMB |-> usedMB],
                                          M.mm.maxSamples),
                 !.arrived.samples = @ + 1]

\* a start() that creates a timer whenever it is called
MonitorRestart(M, usedMB) ==
  Only({SetInterval(M2) : M2 \in
    {TakeSample(M1, usedMB) : M1 \in {ErrorLog([M EXCEPT !.mm.enabled = TRUE], "info")}}})

\* start(): the first sample is taken before the timer is created
MonitorStart(M, usedMB) ==
  IF M.mm.enabled THEN M
  ELSE Only({SetInterval(M2) : M2 \in
         {TakeSample(M1, usedMB) : M1 \in {ErrorLog([M EXCEPT !.mm.enabled = TRUE], "info")}}})

\* stop(): clearInterval(intervalId) when intervalId is truthy
MonitorStop(M) ==
  IF ~M.mm.enabled THEN M
  ELSE Only({ErrorLog(M1, "info") : M1 \in
         {IF M.mm.intervalId # 0
            THEN [M EXCEPT !.mm.enabled = FALSE, !.timers = @ \ {M.mm.intervalId}, !.mm.intervalId = 0]
            ELSE [M EXCEPT !.mm.enabled = FALSE]}})

\* analyzeMemory(), with fewer than 1000 tracked objects alive
AnalyzeMemory(M) ==
  IF Len(M.mm.samples) < 2 THEN M
  ELSE Only({IF M1.mm.samples[Len(M1.mm.samples)].usedMB * 100 > 80 * LimitMB
               THEN ReportIssue(M1, "high-memory") ELSE M1 : M1 \in
         {IF M.mm.samples[Len(M.mm.samples)].usedMB - M.mm.samples[1].usedMB > growthThreshold
            THEN ReportIssue(M, "memory-growth") ELSE M}})

----------------------------------------------------------------------------
(* The UI renderer *)

NewUIRenderer == [initialized |-> FALSE, elements |-> {}, lastValues |-> <<>>, updateCount |-> 0]

\* formatNumber(num) for an integer below 1000: '0' when num is no number
FormatNumber(v) ==
  IF v.t # "num" THEN "0"
  ELSE IF v.n < 0 THEN "-" \o ToString(-v.n)
  ELSE ToString(v.n)

\* the renderer, the store it is given and the page, during one render pass
Rendering(ui, S, P) == [ui |-> ui, S |-> S, P |-> P]

\* state.<category>.<key>, where the category is an object
StateValue(X, path) == IF path \in DOMAIN X.S.tree THEN X.S.tree[path] ELSE Undefined

\* init(): cacheElements() keeps the elements the page has
UIInit(X, doc) ==
  IF X.ui.initialized THEN X
  ELSE [X EXCEPT !.ui.initialized = TRUE, !.ui.elements = RenderedElements \cap DOMAIN doc]

LastValue(ui, elementId) ==
  IF elementId \in DOMAIN ui.lastValues THEN ui.lastValues[elementId] ELSE Undefined

\* a renderer that writes what it has rendered back to the store
RenderElementStoring(X, elementId, value, at) ==
  IF ~StrictNotEqual(LastValue(X.ui, elementId), value, TRUE) THEN X
  ELSE IF elementId \notin X.ui.elements THEN X
  ELSE [X EXCEPT !.P = UpdateElement(@, "text", Mutation(elementId, TextPayload(FormatNumber(value)), at)),
                 !.S = SetPath(@, <<"ui", "rendered">>, value, FALSE, 0),
                 !.ui.lastValues = (elementId :> value) @@ @,
                 !.ui.updateCount = @ + 1]

\* updateElement(elementId, value)
RenderElement(X, elementId, value, at) ==
  IF ~StrictNotEqual(LastValue(X.ui, elementId), value, TRUE) THEN X
  ELSE IF elementId \notin X.ui.elements THEN X
  ELSE [X EXCEPT !.P = UpdateElement(@, "text", Mutation(elementId, TextPayload(FormatNumber(value)), at)),
                 !.ui.lastValues = (elementId :> value) @@ @,
                 !.ui.updateCount = @ + 1]

\* setDisplayVisible(displayId, visible)
SetDisplayVisible(X, displayId, visible, at) ==
  IF displayId \notin X.ui.elements THEN X
  ELSE [X EXCEPT !.P = UpdateElement(@, "style",
                         Mutation(displayId, IF Truthy(visible) THEN "display:block" ELSE "display:none", at))]

\* the function render() hands to domBatcher.batch
RenderUpdates(X, at) ==
  Only({SetDisplayVisible(X1, "spaceDisplay", StateValue(X1, <<"flags", "space">>), at) : X1 \in
    {RenderElement(X, "clips", StateValue(X, <<"resources", "clips">>), at)}})

\* render(state): nothing is thrown by the updates, so that the catch blocks
\* of render and of batch are not entered
UIRender(X, at) ==
  Only({[X2 EXCEPT !.P = BatchFinally(X2.P, X.P.b.enabled)] : X2 \in
    {RenderUpdates(X1, at) : X1 \in {[UIInit(X, X.P.doc) EXCEPT !.P.b.enabled = TRUE]}}})

\* updateButtonStates(state), with a number for the wire
UpdateButtonStates(X) ==
  IF "btnMakePaperclip" \notin DOMAIN X.P.doc THEN X
  ELSE [X EXCEPT !.P.doc["btnMakePaperclip"].disabled = StateValue(X, <<"resources", "wire">>).n < 1]

----------------------------------------------------------------------------
(* State after construction, and one action per call on the store *)

\* what the last call was, what it was given, and how it ended
Call(op, path, val, old, same, ret, threw, writes) ==
  [op |-> op, path |-> path, val |-> val, old |-> old, same |-> same,
   ret |-> ret, threw |-> threw, writes |-> writes]

InitWith(tr) ==
  /\ tree = tr
  /\ observers = <<>>
  /\ storage = Absent
  /\ disposers = <<>>
  /\ regOrder = <<>>
  /\ log = <<>>
  /\ last = Call("new", <<>>, Undefined, Undefined, FALSE, Undefined, FALSE, <<>>)
  /\ steps = 0
  /\ gameLoop = NewGameLoop(0)
  /\ clock = 0
  /\ frames = {}
  /\ nextFrame = 1
  /\ trace = <<>>
  /\ history = NoHistory
  /\ phaseManager = NewPhaseManager
  /\ tasks = <<>>
  /\ initialized = [m \in DynamicModules |-> 0]
  /\ domBatcher = NewDOMBatcher
  /\ document = NewDocument
  /\ refreshes = {}
  /\ nextCallback = 1
  /\ applied = <<>>
  /\ queued = <<>>
  /\ memoryMonitor = NewMemoryMonitor
  /\ timers = {}
  /\ nextTimer = 1
  /\ frameTimes = <<>>
  /\ errorLog = <<>>
  /\ arrived = NothingArrived
  /\ uiRenderer = NewUIRenderer

Init == InitWith(DefaultTree)

\* the value get(path) returns, or nothing when it throws
OldAt(tr, path) == IF Get(tr, path).threw THEN Undefined ELSE Get(tr, path).val

\* the outcome R of set, increment or decrement becomes the state
Written(op, path, val, same, R) ==
  /\ tree' = R.tree
  /\ log' = R.log
  /\ last' = Call(op, path, val, OldAt(tree, path), same, Undefined, R.threw, R.writes)
  /\ steps' = steps + 1
  /\ UNCHANGED <<observers, storage, disposers, regOrder, loopVars, restVars>>

GetOp(bound, paths) ==
  \E path \in paths :
    /\ steps < bound
    /\ last' = Call("get", path, Undefined, Undefined, FALSE,
                    Get(tree, path).val, Get(tree, path).threw, <<>>)
    /\ log' = <<>>
    /\ steps' = steps + 1
    /\ UNCHANGED <<tree, observers, storage, disposers, regOrder, loopVars, restVars>>

SetOp(bound, paths, values) ==
  \E path \in paths, newValue \in values :
    /\ steps < bound
    /\ Written("set", path, newValue, FALSE,
               SetPath(Store(tree, observers), path, newValue, FALSE, 0))

\* set(path, get(path)): the value written is the one already stored
SetStoredOp(bound, paths) ==
  \E path \in paths :
    /\ steps < bound
    /\ ~Get(tree, path).threw
    /\ Written("set", path, Get(tree, path).val, TRUE,
               SetPath(Store(tree, observers), path, Get(tree, path).val, TRUE, 0))

IncrementOp(bound, paths, amounts) ==
  \E path \in paths, amount \in amounts :
    /\ steps < bound
    /\ Written("increment", path, amount, FALSE,
               Increment(Store(tree, observers), path, amount))

DecrementOp(bound, paths, amounts) ==
  \E path \in paths, amount \in amounts :
    /\ steps < bound
    /\ Written("decrement", path, amount, FALSE,
               Decrement(Store(tree, observers), path, amount))

\* addObserver keeps the unsubscribe function it returns in disposers;
\* regOrder lists the registered (pattern, callback) pairs, oldest first
AddObserverOp(bound, patterns, callbacks) ==
  \E pattern \in patterns, cb \in callbacks :
    /\ steps < bound
    /\ observers' = AddToSet(observers, pattern, cb)
    /\ disposers' = Append(disposers, [pattern |-> pattern, cb |-> cb, invoked |-> FALSE])
    /\ regOrder' = IF IsRegistered(observers, pattern, cb) THEN regOrder
                   ELSE Append(regOrder, <<pattern, cb>>)
    /\ last' = Call("addObserver", pattern, Undefined, Undefined, FALSE, Undefined, FALSE, <<>>)
    /\ log' = <<>>
    /\ steps' = steps + 1
    /\ UNCHANGED <<tree, storage, loopVars, restVars>>

\* one of the unsubscribe functions is invoked (again, possibly)
DisposeOp(bound) ==
  \E i \in 1..Len(disposers) :
    /\ steps < bound
    /\ observers' = DeleteFromSet(observers, disposers[i].pattern, disposers[i].cb)
    /\ disposers' = [disposers EXCEPT ![i].invoked = TRUE]
    /\ regOrder' = Without(regOrder, <<disposers[i].pattern, disposers[i].cb>>)
    /\ last' = Call("dispose", disposers[i].pattern, Num(i), Bool(disposers[i].invoked),
                    FALSE, Undefined, FALSE, <<>>)
    /\ log' = <<>>
    /\ steps' = steps + 1
    /\ UNCHANGED <<tree, storage, loopVars, restVars>>

SaveOp(bound) ==
  \E accepted \in BOOLEAN :
    /\ steps < bound
    /\ storage' = Save(tree, storage, accepted, steps + 1).storage
    /\ last' = Call("save", <<>>, Bool(accepted), Undefined, FALSE,
                    Bool(Save(tree, storage, accepted, steps + 1).ret), FALSE, <<>>)
    /\ log' = <<>>
    /\ steps' = steps + 1
    /\ UNCHANGED <<tree, observers, disposers, regOrder, loopVars, restVars>>

\* the store after a bulk assignment becomes the state; a phase watcher that
\* was invoked starts its transition
Replaced(S) ==
  /\ tree' = S.tree
  /\ log' = S.log
  /\ IF Woken(S.log, phaseManager) = {}
       THEN UNCHANGED <<phaseManager, tasks, initialized>>
       ELSE \E X \in {Started(Async(phaseManager, observers,
                                     Task("transitionToPhase", Only(Woken(S.log, phaseManager))),
                                     initialized), S.tree)} :
              /\ phaseManager' = X.pm
              /\ initialized' = X.initialized
              /\ tasks' = Append(tasks, X.t)
  /\ UNCHANGED <<batchVars, monitorVars, uiRenderer>>

LoadOp(bound) ==
  /\ steps < bound
  /\ Replaced(Assigned(Store(tree, observers), Load(tree, storage).tree))
  /\ last' = Call("load", <<>>, Undefined, Undefined, FALSE,
                  Bool(Load(tree, storage).ret), FALSE, <<>>)
  /\ steps' = steps + 1
  /\ UNCHANGED <<observers, storage, disposers, regOrder, loopVars>>

ImportSaveOp(bound, texts) ==
  \E text \in texts, accepted \in BOOLEAN :
    /\ steps < bound
    /\ Replaced(Assigned(Store(tree, observers),
                         ImportSave(tree, storage, text.valid, text.decoded, accepted).tree))
    /\ storage' = ImportSave(tree, storage, text.valid, text.decoded, accepted).storage
    /\ last' = Call("importSave", <<>>, text, Bool(accepted), FALSE,
                    Bool(ImportSave(tree, storage, text.valid, text.decoded, accepted).ret),
                    FALSE, <<>>)
    /\ steps' = steps + 1
    /\ UNCHANGED <<observers, disposers, regOrder, loopVars>>

\* reset() puts a new, empty Map in this.observers
ResetOp(bound) ==
  \E accepted \in BOOLEAN :
    /\ steps < bound
    /\ Replaced(Assigned(Store(tree, observers), Reset(tree, storage, accepted, steps + 1).tree))
    /\ storage' = Reset(tree, storage, accepted, steps + 1).storage
    /\ observers' = <<>>
    /\ regOrder' = <<>>
    /\ last' = Call("reset", <<>>, Bool(accepted), Undefined, FALSE, Undefined, FALSE, <<>>)
    /\ steps' = steps + 1
    /\ UNCHANGED <<disposers, loopVars>>

ExportSaveOp(bound) ==
  /\ steps < bound
  /\ last' = Call("exportSave", <<>>, Undefined, Undefined, FALSE,
                  ExportSave(storage).ret, ExportSave(storage).threw, <<>>)
  /\ log' = <<>>
  /\ steps' = steps + 1
  /\ UNCHANGED <<tree, observers, storage, disposers, regOrder, loopVars, restVars>>

\* the outcome M of a scheduler call becomes the state
Scheduled(op, arg, M) ==
  /\ gameLoop' = M.gl
  /\ frames' = M.frames
  /\ nextFrame' = M.nextFrame
  /\ tree' = M.tree
  /\ storage' = M.storage
  /\ trace' = M.trace
  /\ history' = M.history
  /\ last' = Call(op, <<>>, arg, Undefined, FALSE, Undefined, M.threw, <<>>)
  /\ log' = <<>>
  /\ steps' = steps + 1
  /\ UNCHANGED <<observers, disposers, regOrder, restVars>>

Current == Machine(gameLoop, frames, nextFrame, tree, observers, storage, history)

AddUpdateHandlerOp(bound, handlers) ==
  \E h \in handlers :
    /\ steps < bound
    /\ Scheduled("addUpdateHandler", h, [Current EXCEPT !.gl = AddHandler(@, "update", h)])
    /\ UNCHANGED clock

AddRenderHandlerOp(bound, handlers) ==
  \E h \in handlers :
    /\ steps < bound
    /\ Scheduled("addRenderHandler", h, [Current EXCEPT !.gl = AddHandler(@, "render", h)])
    /\ UNCHANGED clock

RemoveUpdateHandlerOp(bound, handlers) ==
  \E h \in handlers :
    /\ steps < bound
    /\ Scheduled("removeUpdateHandler", h, [Current EXCEPT !.gl = RemoveHandler(@, "update", h)])
    /\ UNCHANGED clock

RemoveRenderHandlerOp(bound, handlers) ==
  \E h \in handlers :
    /\ steps < bound
    /\ Scheduled("removeRenderHandler", h, [Current EXCEPT !.gl = RemoveHandler(@, "render", h)])
    /\ UNCHANGED clock

StartOp(bound) ==
  \E accepted \in BOOLEAN :
    /\ steps < bound
    /\ Scheduled("start", Bool(accepted), Start(Current, clock, accepted))
    /\ UNCHANGED clock

StopOp(bound) ==
  /\ steps < bound
  /\ Scheduled("stop", Undefined, Stop(Current))
  /\ UNCHANGED clock

\* the display refreshes delta ms later and the browser runs one of the
\* pending frame callbacks, () => this.loop()
FrameOp(bound, deltas) ==
  \E id \in frames, delta \in deltas, accepted \in BOOLEAN :
    /\ steps < bound
    /\ clock' = clock + delta
    /\ Scheduled("frame", Num(delta),
                 Loop([Current EXCEPT !.frames = @ \ {id}], clock + delta, accepted))

\* time passes without a display refresh
TickOp(bound, deltas) ==
  \E delta \in deltas :
    /\ steps < bound
    /\ clock' = clock + delta
    /\ last' = Call("tick", <<>>, Num(delta), Undefined, FALSE, Undefined, FALSE, <<>>)
    /\ trace' = <<>>
    /\ log' = <<>>
    /\ steps' = steps + 1
    /\ UNCHANGED <<tree, observers, storage, disposers, regOrder,
                   gameLoop, frames, nextFrame, history, restVars>>

----------------------------------------------------------------------------
(* Spec: the path operations, over paths that run through a number, through *)
(* null, through levels that do not exist and through an array              *)

PathInputs ==
  { <<"resources", "wire">>, <<"resources", "wire", "id">>,
    <<"meta", "transaction", "id">>, <<"new", "nested", "value">>,
    <<"new", "nested">>, <<"market", "incomeTracker">> }

ValueInputs == { Num(5), Num(-3), NaN, Undefined, Null, Bool(TRUE), Str(1), Obj }

AmountInputs == { Num(1), Num(1500), Num(-2), NaN }

Next ==
  \/ GetOp(MaxSteps, PathInputs)
  \/ SetOp(MaxSteps, PathInputs, ValueInputs)
  \/ SetStoredOp(MaxSteps, PathInputs)
  \/ IncrementOp(MaxSteps, PathInputs, {Num(1)})
  \/ DecrementOp(MaxSteps, PathInputs, AmountInputs)

Spec == Init /\ [][Next]_vars

----------------------------------------------------------------------------
(* SpecObservers: registrations, disposers and the writes they observe *)

PatternInputs ==
  { <<"flags", "space">>, <<"flags", "*">>, <<"new", "*">>, <<"new", "nested", "*">> }

ObservedPaths == { <<"flags", "space">>, <<"new", "nested", "value">> }

ObservedValues == { Bool(TRUE), NaN }

NextObservers ==
  \/ AddObserverOp(MaxObsSteps, PatternInputs, Callbacks)
  \/ DisposeOp(MaxObsSteps)
  \/ SetOp(MaxObsSteps, ObservedPaths, ObservedValues)
  \/ SetStoredOp(MaxObsSteps, ObservedPaths)
  \/ GetOp(MaxObsSteps, ObservedPaths)

SpecObservers == Init /\ [][NextObservers]_vars

----------------------------------------------------------------------------
(* SpecPersist: save, load and importSave against the persistence medium *)

\* {"invalid": "data"}
NoVersionNoState == Payload("json", Obj, Undefined, Undefined, NoState)

\* {"version": "2.0.0", "timestamp": 0}
NoStateDoc == Payload("json", Obj, SaveVersion, Num(0), NoState)

\* {"state": {"resources": {"clips": 5000}}}
NoVersionDoc ==
  Payload("json", Obj, Undefined, Undefined,
          (<<>> :> Obj) @@ (<<"resources">> :> Obj) @@ (<<"resources", "clips">> :> Num(5000)))

\* {"version": "2.0.0", "timestamp": 0, "state": {"resources": {"clips": 5000,
\*  "bonus": 7}, "market": {"incomeTracker": []}, "extras": {"x": 1}}}: no
\* flags and no meta category, a key the default shape does not have, and a
\* member that is no category
PartialDoc ==
  Payload("json", Obj, SaveVersion, Num(0),
          (<<>> :> Obj) @@ (<<"resources">> :> Obj)
          @@ (<<"resources", "clips">> :> Num(5000))
          @@ (<<"resources", "bonus">> :> Num(7))
          @@ (<<"market">> :> Obj)
          @@ (<<"market", "incomeTracker">> :> Arr)
          @@ (<<"extras">> :> Obj)
          @@ (<<"extras", "x">> :> Num(1)))

Decoded ==
  { Payload("empty", Undefined, Undefined, Undefined, NoState),
    Payload("garbage", Undefined, Undefined, Undefined, NoState),
    Payload("json", Null, Undefined, Undefined, NoState),
    NoVersionNoState, NoStateDoc, NoVersionDoc, PartialDoc }

TextInputs ==
  {[valid |-> TRUE, decoded |-> d] : d \in Decoded}
  \cup {[valid |-> FALSE, decoded |-> Absent]}

\* the text the last call returned, when that call was exportSave()
Exported ==
  IF last.op = "exportSave" /\ ~last.threw /\ last.ret # Null THEN {last.ret} ELSE {}

SavedPaths ==
  { <<"resources", "wire">>, <<"flags", "space">>, <<"new", "nested", "value">> }

SavedValues == { Num(5), NaN, Bool(TRUE), WStr }

NextPersist ==
  \/ SetOp(MaxSaveSteps, SavedPaths, SavedValues)
  \/ SaveOp(MaxSaveSteps)
  \/ LoadOp(MaxSaveSteps)
  \/ ImportSaveOp(MaxSaveSteps, TextInputs \cup Exported)
  \/ ResetOp(MaxSaveSteps)
  \/ ExportSaveOp(MaxSaveSteps)

SpecPersist == Init /\ [][NextPersist]_vars

----------------------------------------------------------------------------
(* SpecLoop: the scheduler, its handler lists, the clock and the frames *)

\* the update handlers registered, and a value that is no function
HandlerInputs == {"counter", "thrower", "throwsNull", "stopper", "adder", "once", "notAFunction"}

RenderHandlerInputs == {"reader", "thrower", "throwsNull", "once"}

\* no time, less than a display interval, and each of the three intervals
FrameDeltas == {0, 5, 16, 30000, 60000}

TickDeltas == {16, 60000}

NextLoop ==
  \/ AddUpdateHandlerOp(MaxLoopSteps, HandlerInputs)
  \/ AddRenderHandlerOp(MaxLoopSteps, RenderHandlerInputs)
  \/ RemoveUpdateHandlerOp(MaxLoopSteps, {"counter"})
  \/ RemoveRenderHandlerOp(MaxLoopSteps, {"reader"})
  \/ StartOp(MaxLoopSteps)
  \/ StopOp(MaxLoopSteps)
  \/ FrameOp(MaxLoopSteps, FrameDeltas)
  \/ TickOp(MaxLoopSteps, TickDeltas)

SpecLoop == Init /\ [][NextLoop]_vars

----------------------------------------------------------------------------
(* SpecTiming: longer runs of the scheduler without handlers *)

NextTiming ==
  \/ StartOp(MaxTimingSteps)
  \/ StopOp(MaxTimingSteps)
  \/ FrameOp(MaxTimingSteps, FrameDeltas)
  \/ TickOp(MaxTimingSteps, TickDeltas)

SpecTiming == Init /\ [][NextTiming]_vars

----------------------------------------------------------------------------
(* One action per call on the phase manager and per promise that settles *)

\* the pairs setupPhaseWatchers has added to the registered ones
NewlyRegistered(obs) ==
  SelectSeq(<< <<WatchedPath("space"), Watcher("space")>>,
               <<WatchedPath("endgame"), Watcher("endgame")>> >>,
            LAMBDA pr : IsRegistered(obs, pr[1], pr[2]) /\ ~IsRegistered(observers, pr[1], pr[2]))

\* the outcome X of a step of a task becomes the state
PhaseStep(op, path, X, ts) ==
  /\ phaseManager' = X.pm
  /\ observers' = X.obs
  /\ regOrder' = regOrder \o NewlyRegistered(X.obs)
  /\ initialized' = X.initialized
  /\ tasks' = ts
  /\ last' = Call(op, path, Undefined, Undefined, FALSE, Undefined, X.t.state = "rejected", <<>>)
  /\ log' = <<>>
  /\ UNCHANGED <<tree, storage, disposers, loopVars, batchVars, monitorVars, uiRenderer>>

\* a call of one of the asynchronous methods, up to its first pending await
StartOp_(root, arg) ==
  LET X == Started(Async(phaseManager, observers, Task(root, arg), initialized), tree)
  IN PhaseStep(root, <<arg>>, X, Append(tasks, X.t))

InitOp(bound) ==
  /\ steps < bound
  /\ steps' = steps + 1
  /\ StartOp_("init", "")

TransitionToPhaseOp(bound, phases) ==
  \E newPhase \in phases :
    /\ steps < bound
    /\ steps' = steps + 1
    /\ StartOp_("transitionToPhase", newPhase)

LoadPhaseOp(bound, phases) ==
  \E phase \in phases :
    /\ steps < bound
    /\ steps' = steps + 1
    /\ StartOp_("loadPhase", phase)

LoadModuleOp(bound, names) ==
  \E moduleName \in names :
    /\ steps < bound
    /\ steps' = steps + 1
    /\ StartOp_("loadModule", moduleName)

LoadAllModulesOp(bound) ==
  /\ steps < bound
  /\ steps' = steps + 1
  /\ StartOp_("loadAllModules", "")

RegisterPhaseHandlerOp(bound, keys, handlers) ==
  \E key \in keys, handler \in handlers :
    /\ steps < bound
    /\ steps' = steps + 1
    /\ phaseManager' = [phaseManager EXCEPT !.phaseHandlers = (key :> handler) @@ @]
    /\ last' = Call("registerPhaseHandler", key, Undefined, Undefined, FALSE, Undefined, FALSE, <<>>)
    /\ log' = <<>>
    /\ UNCHANGED <<tree, observers, storage, disposers, regOrder, tasks, initialized,
                   loopVars, batchVars, monitorVars, uiRenderer>>

\* gameState.set('flags.<flag>', value): the watcher the set invokes calls
\* transitionToPhase, which runs up to its first pending await inside the set
SetFlagOp(bound, flags, values) ==
  \E flag \in flags, value \in values :
    LET R == SetPath(Store(tree, observers), <<"flags", flag>>, value, FALSE, 0)
        woken == Woken(R.log, phaseManager)
        X == Started(Async(phaseManager, observers,
                           Task("transitionToPhase", Only(woken)), initialized), R.tree)
    IN /\ steps < bound
       /\ steps' = steps + 1
       /\ tree' = R.tree
       /\ log' = R.log
       /\ last' = Call("set", <<"flags", flag>>, value, OldAt(tree, <<"flags", flag>>), FALSE,
                       Undefined, R.threw, R.writes)
       /\ IF woken = {}
            THEN UNCHANGED <<phaseManager, tasks, initialized>>
            ELSE /\ phaseManager' = X.pm
                 /\ initialized' = X.initialized
                 /\ tasks' = Append(tasks, X.t)
       /\ UNCHANGED <<observers, storage, disposers, regOrder, loopVars, batchVars, monitorVars, uiRenderer>>

\* a step of task i that an awaited promise starts when it settles
Resumed(i, pc, op, X) ==
  /\ tasks[i].pc = pc
  /\ UNCHANGED steps
  /\ PhaseStep(op, <<tasks[i].root, tasks[i].arg>>, X, [tasks EXCEPT ![i] = X.t])

Awaiting(i) == Async(phaseManager, observers, tasks[i], initialized)

ImportSettles(outcomes) ==
  \E i \in 1..Len(tasks), outcome \in outcomes :
    Resumed(i, "import", "importSettled", ImportSettled(Awaiting(i), outcome))

InitSettles(outcomes) ==
  \E i \in 1..Len(tasks), outcome \in outcomes :
    Resumed(i, "init", "initSettled", InitSettled(Awaiting(i), outcome))

ExitSettles ==
  \E i \in 1..Len(tasks) :
    Resumed(i, "exit", "exitSettled", ExitSettled(Awaiting(i)))

EnterSettles ==
  \E i \in 1..Len(tasks) :
    Resumed(i, "enter", "enterSettled", EnterSettled(Awaiting(i)))

----------------------------------------------------------------------------
(* SpecModules: overlapping loads of the modules of the space phase *)

MaxModuleSteps == 2

NextModules ==
  \/ LoadModuleOp(MaxModuleSteps, {"swarm", "market"})
  \/ LoadPhaseOp(MaxModuleSteps, {"space"})
  \/ TransitionToPhaseOp(MaxModuleSteps, {"space"})
  \/ LoadAllModulesOp(MaxModuleSteps)
  \/ ImportSettles({"ok", "Error"})
  \/ InitSettles({"ok", "Error"})

SpecModules == Init /\ [][NextModules]_vars

----------------------------------------------------------------------------
(* SpecLoader: loadModule calls whose import or initializer may fail *)

MaxLoaderSteps == 2

NextLoader ==
  \/ LoadModuleOp(MaxLoaderSteps, {"swarm", "combat", "market"})
  \/ ImportSettles(Outcomes)
  \/ InitSettles(Outcomes)

SpecLoader == Init /\ [][NextLoader]_vars

----------------------------------------------------------------------------
(* SpecPhase: the phase, the flags that move it, and the hooks *)

MaxPhaseSteps == 3

HookInputs == { <<"human", "exit">>, <<"space", "enter">> }

\* the default flags the phase is determined from
PhaseTree == DefaultTree @@ (<<"flags", "endgame">> :> Bool(FALSE))

InitPhase == InitWith(PhaseTree)

NextPhase ==
  \/ InitOp(MaxPhaseSteps)
  \/ SetFlagOp(MaxPhaseSteps, {"space", "endgame"}, {Bool(TRUE), Bool(FALSE)})
  \/ RegisterPhaseHandlerOp(MaxPhaseSteps, HookInputs, Outcomes)
  \/ ImportSettles({"ok"})
  \/ InitSettles({"ok", "null"})
  \/ ExitSettles
  \/ EnterSettles

SpecPhase == InitPhase /\ [][NextPhase]_vars

----------------------------------------------------------------------------
(* SpecReplace: the state is saved, loaded, imported and reset while
   observers and the phase watchers are registered *)

MaxReplaceSteps == 3

\* {"version": "2.0.0", "timestamp": 0, "state": {"flags": {"space": true}}}
SpaceDoc ==
  Payload("json", Obj, SaveVersion, Num(0),
          (<<>> :> Obj) @@ (<<"flags">> :> Obj) @@ (<<"flags", "space">> :> Bool(TRUE)))

NextReplace ==
  \/ InitOp(MaxReplaceSteps)
  \/ AddObserverOp(MaxReplaceSteps, { <<"flags", "space">>, <<"flags", "*">> }, {"recorder"})
  \/ DisposeOp(MaxReplaceSteps)
  \/ SetFlagOp(MaxReplaceSteps, {"space"}, {Bool(TRUE), Bool(FALSE)})
  \/ SaveOp(MaxReplaceSteps)
  \/ LoadOp(MaxReplaceSteps)
  \/ ImportSaveOp(MaxReplaceSteps, {[valid |-> TRUE, decoded |-> SpaceDoc]})
  \/ ResetOp(MaxReplaceSteps)
  \/ ImportSettles({"ok"})
  \/ InitSettles({"ok"})

SpecReplace == Init /\ [][NextReplace]_vars

----------------------------------------------------------------------------
(* One action per call on the DOM batcher *)

ThisPage == Page(domBatcher, document, refreshes, nextCallback, queued)

\* the outcome P of a batcher call becomes the state
Batched(op, id, P) ==
  /\ domBatcher' = P.b
  /\ document' = P.doc
  /\ refreshes' = P.callbacks
  /\ nextCallback' = P.nextCallback
  /\ queued' = P.queued
  /\ applied' = P.applied
  /\ last' = Call(op, <<id>>, Undefined, Undefined, FALSE, P.ret, P.threw, <<>>)
  /\ log' = <<>>
  /\ steps' = steps + 1
  /\ UNCHANGED <<tree, observers, storage, disposers, regOrder, loopVars, phaseVars, monitorVars, uiRenderer>>

UpdateTextOp(bound, ids, texts) ==
  \E elementId \in ids, text \in texts :
    /\ steps < bound
    /\ Batched("updateText", elementId,
               UpdateElement(ThisPage, "text", Mutation(elementId, TextPayload(text), steps)))

UpdateHTMLOp(bound, ids, htmls) ==
  \E elementId \in ids, html \in htmls :
    /\ steps < bound
    /\ Batched("updateHTML", elementId,
               UpdateElement(ThisPage, "text", Mutation(elementId, HTMLPayload(html), steps)))

UpdateStylesOp(bound, ids, styles) ==
  \E elementId \in ids, style \in styles :
    /\ steps < bound
    /\ Batched("updateStyles", elementId,
               UpdateElement(ThisPage, "style", Mutation(elementId, style, steps)))

UpdateClassesOp(bound, ids, classes) ==
  \E elementId \in ids, cls \in classes :
    /\ steps < bound
    /\ Batched("updateClasses", elementId,
               UpdateElement(ThisPage, "class", Mutation(elementId, cls, steps)))

UpdateVisibilityOp(bound, ids) ==
  \E elementId \in ids, visible \in BOOLEAN :
    /\ steps < bound
    /\ Batched("updateVisibility", elementId,
               UpdateElement(ThisPage, "visibility", Mutation(elementId, visible, steps)))

FlushOp(bound) ==
  /\ steps < bound
  /\ Batched("flush", "", Flush(ThisPage))

\* the display refreshes and the browser runs one of the pending callbacks,
\* () => { this.flush(); }
RefreshOp(bound) ==
  \E id \in refreshes :
    /\ steps < bound
    /\ Batched("refresh", "", Flush([ThisPage EXCEPT !.callbacks = @ \ {id}]))

ReadOp(bound, ids, properties) ==
  \E elementId \in ids, property \in properties :
    /\ steps < bound
    /\ Batched("read", elementId, Read(ThisPage, elementId, property))

BatchOp(bound, fns) ==
  \E updateFn \in fns :
    /\ steps < bound
    /\ Batched("batch", "", Batch(ThisPage, updateFn, steps))

SetEnabledOp(bound) ==
  \E enabled \in BOOLEAN :
    /\ steps < bound
    /\ Batched("setEnabled", "", SetEnabled(ThisPage, enabled))

----------------------------------------------------------------------------
(* SpecBatch: queued mutations, flushes and reads of two elements *)

MaxBatchSteps == 4

\* classes to add, and a classes argument that is null
ClassInputs == { ClassPayload({"on"}, {}), NullClasses }

\* a property read() flushes for, and one it does not flush for
PropertyInputs == {"offsetWidth", "textContent"}

NextBatch ==
  \/ UpdateTextOp(MaxBatchSteps, {"a", "b"}, {"x", "y"})
  \/ UpdateHTMLOp(MaxBatchSteps, {"a"}, {"<b>x</b>"})
  \/ UpdateStylesOp(MaxBatchSteps, {"a"}, {"red", "null"})
  \/ UpdateClassesOp(MaxBatchSteps, {"a"}, ClassInputs)
  \/ UpdateVisibilityOp(MaxBatchSteps, {"a"})
  \/ FlushOp(MaxBatchSteps)
  \/ RefreshOp(MaxBatchSteps)
  \/ ReadOp(MaxBatchSteps, {"a", "gone"}, PropertyInputs)
  \/ BatchOp(MaxBatchSteps, UpdateFns)
  \/ SetEnabledOp(MaxBatchSteps)

SpecBatch == Init /\ [][NextBatch]_vars

----------------------------------------------------------------------------
(* One action per call on the monitors and the error log *)

TheseMonitors == Monitors(memoryMonitor, timers, nextTimer, frameTimes, errorLog, arrived)

\* the outcome M of a call becomes the state
Monitored(op, M) ==
  /\ memoryMonitor' = M.mm
  /\ timers' = M.timers
  /\ nextTimer' = M.nextTimer
  /\ frameTimes' = M.frameTimes
  /\ errorLog' = M.errorLog
  /\ arrived' = M.arrived
  /\ last' = Call(op, <<>>, Undefined, Undefined, FALSE, Undefined, FALSE, <<>>)
  /\ log' = <<>>
  /\ steps' = steps + 1
  /\ UNCHANGED <<tree, observers, storage, disposers, regOrder, loopVars, phaseVars, batchVars,
                 uiRenderer>>

MonitorStartOp(bound, readings) ==
  \E usedMB \in readings :
    /\ steps < bound
    /\ Monitored("start", MonitorStart(TheseMonitors, usedMB))

MonitorStopOp(bound) ==
  /\ steps < bound
  /\ Monitored("stop", MonitorStop(TheseMonitors))

\* an active timer fires: takeSample(), analyzeMemory()
SampleTimerOp(bound, readings) ==
  \E id \in timers, usedMB \in readings :
    /\ steps < bound
    /\ Monitored("timer", AnalyzeMemory(TakeSample(TheseMonitors, usedMB)))

TakeSampleOp(bound, readings) ==
  \E usedMB \in readings :
    /\ steps < bound
    /\ Monitored("takeSample", TakeSample(TheseMonitors, usedMB))

ReportIssueOp(bound, types) ==
  \E type \in types :
    /\ steps < bound
    /\ Monitored("reportIssue", ReportIssue(TheseMonitors, type))

RecordFrameOp(bound, checks) ==
  \E warns \in checks :
    /\ steps < bound
    /\ Monitored("recordFrame", RecordFrame(TheseMonitors, warns))

LogOp(bound, levels) ==
  \E level \in levels :
    /\ steps < bound
    /\ Monitored("log", ErrorLog(TheseMonitors, level))

----------------------------------------------------------------------------
(* SpecMonitor: the memory monitor is started and stopped while its timer
   fires *)

MaxMonitorSteps == 5

\* what performance.memory reports as used, in MB; 0 when it is missing
Readings == {0, 10, 170}

NextMonitor ==
  \/ MonitorStartOp(MaxMonitorSteps, Readings)
  \/ MonitorStopOp(MaxMonitorSteps)
  \/ SampleTimerOp(MaxMonitorSteps, Readings)
  \/ LogOp(MaxMonitorSteps, {"error"})

SpecMonitor == Init /\ [][NextMonitor]_vars

----------------------------------------------------------------------------
(* SpecHistories: each history is filled beyond its maximum *)

MaxHistorySteps == 101

NextHistories ==
  \/ RecordFrameOp(MaxHistorySteps, {FALSE})
  \/ TakeSampleOp(MaxHistorySteps, {10})
  \/ ReportIssueOp(MaxHistorySteps, {"object-leak"})

SpecHistories == Init /\ [][NextHistories]_vars

----------------------------------------------------------------------------
(* The render handler, and SpecRender: the store is written and observed
   while the page is rendered *)

\* the render handler of the game: uiRenderer.render(state);
\* uiRenderer.updateButtonStates(state), with the store as state
RenderOp(bound) ==
  /\ steps < bound
  /\ \E X \in {UpdateButtonStates(Y) : Y \in
                 {UIRender(Rendering(uiRenderer, Store(tree, observers), ThisPage), steps)}} :
       /\ uiRenderer' = X.ui
       /\ tree' = X.S.tree
       /\ log' = X.S.log
       /\ domBatcher' = X.P.b
       /\ document' = X.P.doc
       /\ refreshes' = X.P.callbacks
       /\ nextCallback' = X.P.nextCallback
       /\ queued' = X.P.queued
       /\ applied' = X.P.applied
       /\ last' = Call("render", <<>>, Undefined, Undefined, FALSE, Undefined, X.P.threw, <<>>)
  /\ steps' = steps + 1
  /\ UNCHANGED <<observers, storage, disposers, regOrder, loopVars, phaseVars, monitorVars>>

MaxRenderSteps == 3

RenderedPaths == { <<"resources", "clips">>, <<"flags", "space">> }

NextRender ==
  \/ SetOp(MaxRenderSteps, RenderedPaths, {Num(1), Bool(TRUE)})
  \/ AddObserverOp(MaxRenderSteps, { <<"resources", "clips">>, <<"flags", "*">>, <<"ui", "*">> }, {"recorder"})
  \/ RenderOp(MaxRenderSteps)
  \/ UpdateTextOp(MaxRenderSteps, {"clips"}, {"x"})
  \/ BatchOp(MaxRenderSteps, {"reversed"})
  \/ ReadOp(MaxRenderSteps, {"clips"}, {"offsetWidth"})
  \/ FlushOp(MaxRenderSteps)
  \/ RefreshOp(MaxRenderSteps)
  \/ SetEnabledOp(MaxRenderSteps)

SpecRender == Init /\ [][NextRender]_vars

----------------------------------------------------------------------------
(* Properties of the path operations (Spec) *)

\* C1: path round-trip.  Every set(p, v) returns normally and get(p) then
\* returns exactly v, whatever is stored along p.
C1_PathRoundTrip ==
  last.op = "set" =>
    /\ ~last.threw
    /\ Get(tree, last.path) = [threw |-> FALSE, val |-> last.val]

\* C2: absent-path safety.  get(path) never throws: it returns the stored
\* value when every key of the path resolves and undefined otherwise.
Resolves(tr, path) == path \in DOMAIN tr
C2_GetNeverThrows ==
  last.op = "get" =>
    /\ ~last.threw
    /\ last.ret = (IF Resolves(tree, last.path) THEN tree[last.path] ELSE Undefined)

\* C3: decrement floor.  After decrement(p, amount) the value at p is never a
\* negative number, whatever was stored at p and whatever the amount; and
\* decrement('resources.wire', 1500) on a fresh store leaves 0.
IsNegative(g) == ~g.threw /\ g.val.t = "num" /\ g.val.n < 0
C3_DecrementFloor ==
  last.op = "decrement" =>
    /\ ~IsNegative(Get(tree, last.path))
    /\ (steps = 1 /\ last.path = <<"resources", "wire">> /\ last.val = Num(1500))
         => (~last.threw /\ Get(tree, last.path) = [threw |-> FALSE, val |-> Num(0)])

\* a decrement of a negative stored number by a positive amount has left 0,
\* and a decrement of a number larger than the amount has left the difference
C3_Witness ==
  /\ last.op = "decrement"
  /\ ~last.threw
  /\ last.old = Num(-3)
  /\ last.val = Num(1)
  /\ Get(tree, last.path).val = Num(0)

----------------------------------------------------------------------------
(* Properties of the observer registry (SpecObservers) *)

\* pattern is the exact path, or '<prefix>.*' for a proper ancestor prefix
Matches(pattern, path) ==
  \/ pattern = path
  \/ \E i \in 1..(Len(path) - 1) : pattern = Append(SubSeq(path, 1, i), "*")

\* the callbacks invoked by the call itself, not by a re-entrant set
Direct(lg) == {i \in 1..Len(lg) : lg[i].depth = 0}

\* the write replaced the value at the path by a different one
Changed(c) == c.old # c.val \/ (IsObject(c.val) /\ ~c.same)

\* the place of a registration among the current ones, oldest first
RegIndex(pattern, cb) ==
  CHOOSE k \in 1..Len(regOrder) : regOrder[k] = <<pattern, cb>>

\* C4: observer firing.  A set(p, v) that changes the value at p invokes each
\* callback registered on exactly p and each callback registered on
\* '<prefix>.*' for an ancestor prefix of p exactly once, with the new value
\* (and, for a wildcard pattern, the full path p as third argument).
C4_ObserverFiring ==
  [][(last'.op = "set" /\ ~last'.threw /\ Changed(last')) =>
       /\ \A pattern \in DOMAIN observers :
            Matches(pattern, last'.path) =>
              \A k \in 1..Len(observers[pattern]) :
                Cardinality({i \in Direct(log') :
                               /\ log'[i].pattern = pattern
                               /\ log'[i].cb = observers[pattern][k]}) = 1
       /\ \A i \in Direct(log') :
            /\ log'[i].new = last'.val
            /\ log'[i].old = last'.old
            /\ log'[i].path = last'.path
            /\ log'[i].pathArg = (log'[i].pattern # last'.path)]_vars

\* a write three keys deep has reached an observer of each of its two
\* ancestor prefixes
C4_Witness ==
  /\ last.op = "set"
  /\ last.path = <<"new", "nested", "value">>
  /\ \E i, j \in Direct(log) :
       /\ log[i].pattern = <<"new", "nested", "*">>
       /\ log[j].pattern = <<"new", "*">>

\* C5: silent no-change writes.  A set(p, v) where v is the value already
\* stored at p invokes no observer.
C5_SilentNoChange ==
  (last.op = "set" /\ ~last.threw /\ ~Changed(last)) => log = <<>>

\* C6: observer order.  The observers one set notifies are invoked in the
\* order in which they were registered.
C6_RegistrationOrder ==
  \A i, j \in Direct(log) :
    i < j => RegIndex(log[i].pattern, log[i].cb) < RegIndex(log[j].pattern, log[j].cb)

\* C6 as amended: the callbacks of the exact path come first, then those of
\* the wildcard patterns from the longest prefix to the shortest, and the
\* callbacks of one pattern run in the order in which they were registered.
PatternRank(e) == IF e.pattern = e.path THEN 0 ELSE Len(e.path) + 1 - Len(e.pattern)
C6_PatternThenRegistrationOrder ==
  \A i, j \in Direct(log) :
    i < j =>
      \/ PatternRank(log[i]) < PatternRank(log[j])
      \/ /\ log[i].pattern = log[j].pattern
         /\ RegIndex(log[i].pattern, log[i].cb) < RegIndex(log[j].pattern, log[j].cb)

\* an exact-path observer has run before a wildcard observer registered
\* earlier than it
C6_Witness ==
  \E i, j \in Direct(log) :
    /\ i < j
    /\ log[i].pattern = log[i].path
    /\ log[j].pattern # log[j].path
    /\ RegIndex(log[j].pattern, log[j].cb) < RegIndex(log[i].pattern, log[i].cb)

\* C7: synchronous notification.  When set(p, v) returns, every observer it
\* triggered has run, each of them read v with get(p) while it ran, and
\* get(p) returns v; the same holds of a set issued by an observer.
AllHaveRun(c, obs, lg) ==
  Changed(c) =>
    \A pattern \in DOMAIN obs :
      Matches(pattern, c.path) =>
        \A k \in 1..Len(obs[pattern]) :
          \E i \in Direct(lg) : lg[i].pattern = pattern /\ lg[i].cb = obs[pattern][k]

RewrittenBefore(c, i) ==
  \E k \in 1..Len(c.writes) : c.writes[k].at < i /\ Related(c.writes[k].path, c.path)

C8_DisposerExact ==
  \A i \in 1..Len(disposers) :
    ~disposers[i].invoked => IsRegistered(observers, disposers[i].pattern, disposers[i].cb)

----------------------------------------------------------------------------
(* Properties of the persistence envelope (SpecPersist) *)

\* nothing is persisted, the text does not parse to an object, or the
\* object has no 'version' or no 'state' member
Malformed(store) ==
  \/ store.kind \in {"absent", "empty", "garbage"}
  \/ store.top # Obj
  \/ store.version = Undefined
  \/ store.state[<<>>] = Undefined

\* what is stored at p and below it
Subtree(tr, p) == [q \in {r \in DOMAIN tr : IsPrefix(p, r)} |-> tr[q]]

\* C9: malformed load rejection.  load() returns false and leaves every path
\* of the live state unchanged when the persisted envelope is absent, does
\* not parse, or lacks 'version' or 'state'.
C9_MalformedLoadRejected ==
  [][(last'.op = "load" /\ Malformed(storage)) =>
       (last'.ret = Bool(FALSE) /\ tree' = tree)]_vars

\* load() has returned false on an envelope that has a version and no state
C9_Witness ==
  /\ last.op = "load"
  /\ last.ret = Bool(FALSE)
  /\ storage = NoStateDoc

\* C10: load is a per-category shallow merge.  On an accepted load, in each
\* category the envelope has, every saved key holds the saved value (unknown
\* keys included) and every other live key keeps its value; the categories
\* the envelope does not have, and everything outside the categories, are
\* untouched.
C10_ShallowMerge ==
  [][(last'.op \in {"load", "importSave"} /\ last'.ret = Bool(TRUE)) =>
       /\ \A c \in Categories :
            IF <<c>> \in DOMAIN storage'.state
              THEN /\ \A k \in KeysAt(storage'.state, <<c>>) :
                        Subtree(tree', <<c, k>>) = Subtree(storage'.state, <<c, k>>)
                   /\ \A k \in KeysAt(tree, <<c>>) \ KeysAt(storage'.state, <<c>>) :
                        Subtree(tree', <<c, k>>) = Subtree(tree, <<c, k>>)
                   /\ KeysAt(tree', <<c>>) = KeysAt(tree, <<c>>) \cup KeysAt(storage'.state, <<c>>)
                   /\ tree'[<<c>>] = tree[<<c>>]
              ELSE Subtree(tree', <<c>>) = Subtree(tree, <<c>>)
       /\ \A q \in DOMAIN tree \cup DOMAIN tree' :
            (q = <<>> \/ q[1] \notin Categories) =>
              (q \in DOMAIN tree /\ q \in DOMAIN tree' /\ tree'[q] = tree[q])]_vars

\* an accepted load has overwritten a saved key, added an unknown key and
\* replaced a saved array, and has kept a live key the envelope lacks at the
\* value written before the load
C10_Witness ==
  /\ last.op \in {"load", "importSave"}
  /\ last.ret = Bool(TRUE)
  /\ storage = PartialDoc
  /\ tree[<<"resources", "clips">>] = Num(5000)
  /\ tree[<<"resources", "bonus">>] = Num(7)
  /\ tree[<<"resources", "wire">>] = Num(5)
  /\ <<"market", "incomeTracker", "0">> \notin DOMAIN tree
  /\ tree[<<"flags", "space">>] = Bool(FALSE)
  /\ <<"extras">> \notin DOMAIN tree

\* C11: save/load idempotence.  From every reachable state, a save() that
\* returns true followed immediately by load() makes load() return true and
\* leaves the state tree equal to the one before save().
C11_SaveLoadIdempotent ==
  [][(last.op = "save" /\ last.ret = Bool(TRUE) /\ last'.op = "load") =>
       (last'.ret = Bool(TRUE) /\ tree' = tree)]_vars

\* the saved value of a leaf JSON can represent is the live value
SavedAsStored(tr, doc) ==
  \A q \in DOMAIN tr :
    (Len(q) >= 2 /\ q[1] \in Categories /\ tr[q].t \notin {"undef", "nan"}) =>
      (q \in DOMAIN doc /\ doc[q] = tr[q])

\* C12: save failure is a value.  save() never throws and never changes the
\* live state; it returns false exactly when the medium rejects the write,
\* and the envelope persisted before is then still the one in the medium;
\* when it returns true the envelope holds the version, a timestamp and every
\* state category with the live values.
C12_SaveFailureIsValue ==
  [][last'.op = "save" =>
       /\ ~last'.threw
       /\ tree' = tree
       /\ last'.ret = last'.val
       /\ last'.ret = Bool(FALSE) => storage' = storage
       /\ last'.ret = Bool(TRUE) =>
            /\ storage'.kind = "json"
            /\ storage'.top = Obj
            /\ storage'.version = SaveVersion
            /\ storage'.timestamp.t = "num"
            /\ \A c \in Categories : <<c>> \in DOMAIN storage'.state
            /\ SavedAsStored(tree, storage'.state)]_vars

\* a save was rejected after a write that followed an accepted save: the
\* medium still holds the first envelope, with the value from before the write
C12_Witness ==
  /\ last.op = "save"
  /\ last.ret = Bool(FALSE)
  /\ storage.kind = "json"
  /\ storage.timestamp = Num(1)
  /\ storage.state[<<"resources", "wire">>] = Num(DefaultWire)
  /\ tree[<<"resources", "wire">>] = Num(5)

\* C13: reset restores the default shape.  After a reset() whose save is
\* accepted, the state tree is that of a freshly constructed store (no path
\* created by an earlier write resolves any more) and the persisted envelope
\* holds exactly the default state.
C13_ResetRestoresDefault ==
  (last.op = "reset" /\ last.val = Bool(TRUE)) =>
    /\ tree = DefaultTree
    /\ storage.kind = "json"
    /\ storage.state = JsonState(DefaultTree)

\* the live category values are the saved ones
LiveEqualsSaved(tr, doc) ==
  \A q \in DOMAIN doc :
    (Len(q) >= 2 /\ q[1] \in Categories) => (q \in DOMAIN tr /\ tr[q] = doc[q])

\* C14: export reflects the last save.  exportSave() returns normally, with
\* null when nothing is persisted and otherwise the encoding of the payload
\* in the medium; and importSave of the text exportSave() just returned for a
\* well-formed payload, the medium accepting the write, returns true, leaves
\* the payload identical and makes the live category values the saved ones.
C14_ExportReflectsLastSave ==
  [][/\ last'.op = "exportSave" =>
          /\ ~last'.threw
          /\ last'.ret = (IF storage.kind \in {"absent", "empty"} THEN Null ELSE Btoa(storage))
     /\ (/\ last.op = "exportSave" /\ ~last.threw
         /\ last'.op = "importSave" /\ last'.val = last.ret /\ last'.old = Bool(TRUE)
         /\ ~Malformed(storage)) =>
          /\ last'.ret = Bool(TRUE)
          /\ storage' = storage
          /\ LiveEqualsSaved(tree', storage.state)]_vars

\* C15: failed import mutates nothing.  Whenever importSave(text) returns
\* false it has not thrown, and the live state and the payload in the medium
\* are the ones from before the call.
C15_FailedImportMutatesNothing ==
  [][(last'.op = "importSave" /\ last'.ret = Bool(FALSE)) =>
       (~last'.threw /\ tree' = tree /\ storage' = storage)]_vars

----------------------------------------------------------------------------
(* Properties of the scheduler (SpecLoop, SpecTiming) *)

\* C16: start/stop are idempotent.  start() on a running scheduler runs no
\* pass, resets no timestamp and requests no frame; stop() on a stopped
\* scheduler leaves the running flag, the timestamps, the handler lists and
\* the pending frame callbacks as they were.
C16_StartStopIdempotent ==
  [][/\ (last'.op = "start" /\ gameLoop.running) =>
          (gameLoop' = gameLoop /\ frames' = frames /\ nextFrame' = nextFrame /\ trace' = <<>>)
     /\ (last'.op = "stop" /\ ~gameLoop.running) =>
          (gameLoop' = gameLoop /\ frames' = frames)]_vars

\* the handlers of an activity that the trace shows invoked, in order
Invoked(tr, act) ==
  LET es == SelectSeq(tr, LAMBDA e : e.act = act /\ e.h # "pass")
  IN [k \in 1..Len(es) |-> es[k].h]

HasPass(tr, act) == \E i \in 1..Len(tr) : tr[i].act = act /\ tr[i].h = "pass"

\* the activities due in an iteration that samples now on the scheduler gl
Due(gl, now, act) ==
  CASE act = "update" -> now - gl.lastUpdate > 0
    [] act = "render" -> now - gl.lastRender >= DISPLAY_UPDATE_INTERVAL
    [] act = "autosave" -> now - gl.lastAutosave >= AUTOSAVE_INTERVAL
    [] OTHER -> now - gl.lastCleanup >= cleanupInterval

Activities == {"update", "render", "autosave", "cleanup"}

\* handlers that change no handler list
Plain(hs) == \A k \in 1..Len(hs) : hs[k] \notin {"adder", "once"}

\* C17: scheduler isolation.  In an iteration in which a handler throws, the
\* exception does not leave loop(): every handler registered after it is
\* invoked in the same pass, every activity that is due still runs, and the
\* next frame is requested.
C17_SchedulerIsolation ==
  [][(/\ last'.op = "frame" /\ gameLoop.running
      /\ \E i \in 1..Len(trace') : trace'[i].caught) =>
       /\ ~last'.threw
       /\ nextFrame' = nextFrame + 1 /\ nextFrame \in frames'
       /\ \A act \in Activities : Due(gameLoop, clock', act) => HasPass(trace', act)
       /\ \A act \in {"update", "render"} :
            (HasPass(trace', act) /\ Plain(HandlersOf(gameLoop, act))) =>
              Invoked(trace', act) = HandlersOf(gameLoop, act)]_vars

Rank(act) ==
  CASE act = "update" -> 1 [] act = "render" -> 2 [] act = "autosave" -> 3 [] OTHER -> 4

\* C18: fixed activity order.  In one iteration the due activities run one
\* after the other in the order update, render, autosave, cleanup, each at
\* most once and exactly when due, and what the render pass and its handlers
\* read from the store is what the update pass of that iteration left there.
C18_FixedActivityOrder ==
  [][(last'.op \in {"frame", "start"}) =>
       /\ \A i, j \in 1..Len(trace') :
            i < j => /\ Rank(trace'[i].act) <= Rank(trace'[j].act)
                     /\ (trace'[i].h = "pass" /\ trace'[j].h = "pass")
                          => Rank(trace'[i].act) < Rank(trace'[j].act)
       /\ \A i \in 1..Len(trace') :
            trace'[i].act = "render" =>
              /\ trace'[i].ticks = tree'[TicksPath]
              /\ trace'[i].clips = tree'[CounterPath]
              /\ HasPass(trace', "update") => trace'[i].ticks # tree[TicksPath]
       /\ (last'.op = "frame" /\ gameLoop.running /\ ~last'.threw) =>
            \A act \in Activities : HasPass(trace', act) <=> Due(gameLoop, clock', act)]_vars

\* an iteration has run all four activities, and its render handler has read
\* the counter the update handler of the same iteration incremented
C18_Witness ==
  /\ last.op = "frame"
  /\ \A act \in Activities : HasPass(trace, act)
  /\ \E i, j \in 1..Len(trace) :
       /\ i < j
       /\ trace[i].act = "update" /\ trace[i].h = "counter" /\ trace[i].clips = Num(0)
       /\ trace[j].act = "render" /\ trace[j].h = "reader" /\ trace[j].clips = Num(1)

\* C19: handler order.  In every pass that runs to its end, the handlers that
\* are on the list when the pass ends (those registered and not removed) have
\* each been invoked exactly once, in registration order, also when handlers
\* registered or removed handlers during the pass.
C19_HandlerOrder ==
  [][(last'.op = "frame" /\ ~last'.threw) =>
       \A act \in {"update", "render"} :
         HasPass(trace', act) =>
           SelectSeq(Invoked(trace', act), LAMBDA h : h # "once")
             = SelectSeq(HandlersOf(gameLoop', act), LAMBDA h : h # "once")]_vars

Gaps(times, least) ==
  \A k \in 2..Len(times) : times[k] - times[k - 1] >= least

----------------------------------------------------------------------------
(* Properties of the phase manager (SpecModules, SpecPhase) *)

\* C22: module load idempotence.  Whatever loadModule, loadPhase,
\* transitionToPhase and loadAllModules calls overlap, the initializer of a
\* dynamically imported module is called at most once.
C22_LoadOnce ==
  \A m \in DynamicModules : initialized[m] <= 1

\* every asynchronous call made so far has settled
Quiet == \A i \in 1..Len(tasks) : tasks[i].pc = "settled"

\* init() has completed and the watchers are registered
Watching ==
  /\ \E i \in 1..Len(tasks) : tasks[i].root = "init" /\ tasks[i].state = "resolved"
  /\ IsRegistered(observers, WatchedPath("endgame"), Watcher("endgame"))

\* C23: phase precedence.  init() sets the phase from the flags, endgame
\* before space before human; afterwards, when no call is in flight, no hook
\* is registered and flags.endgame is true, the phase is 'endgame'.
C23_PhasePrecedence ==
  /\ last.op = "init" => phaseManager.currentPhase = DeterminePhase(tree)
  /\ (/\ Watching
      /\ Quiet
      /\ phaseManager.phaseHandlers = <<>>
      /\ Truthy(Get(tree, WatchedPath("endgame")).val)) =>
       phaseManager.currentPhase = "endgame"

\* C24: best-effort transition.  No transitionToPhase call is rejected; and
\* the step in which a failed exit hook settles changes neither the phase nor
\* the loaded modules.
C24_TransitionNeverRejects ==
  [][/\ \A i \in 1..Len(tasks') :
          tasks'[i].root = "transitionToPhase" => tasks'[i].state # "rejected"
     /\ (/\ last'.op = "exitSettled"
         /\ \E i \in 1..Len(tasks) :
              tasks[i].pc = "exit" /\ tasks'[i].pc # "exit" /\ tasks[i].hook # "ok") =>
          /\ phaseManager'.currentPhase = phaseManager.currentPhase
          /\ phaseManager'.loadedModules = phaseManager.loadedModules]_vars

----------------------------------------------------------------------------
(* Properties of the DOM batcher (SpecBatch) *)

\* the mutations a flush() of the last call has run, as positions of applied
FlushedAt(ap) == {k \in 1..Len(ap) : ap[k].cat \in {"visibility", "style", "class", "text"} /\ ~ap[k].direct}

\* the last call has run flush()
FlushRan(ap) == \E k \in 1..Len(ap) : ap[k].cat = "flush"

\* the calls that run flush() and queue nothing themselves
Flushing == {"flush", "refresh", "read", "setEnabled"}

\* C25: batch coalescing.  Every mutation a flush applies carries the payload
\* that was queued last for its category and target.
C25_LastPayloadOnly ==
  [][last'.op \in Flushing =>
       \A k \in FlushedAt(applied') :
         /\ <<applied'[k].cat, applied'[k].id>> \in DOMAIN queued
         /\ applied'[k].payload = queued[<<applied'[k].cat, applied'[k].id>>]]_vars

\* the place of a category in the order visibility, style, class, content
CategoryRank(cat) ==
  CASE cat = "visibility" -> 1
    [] cat = "style" -> 2
    [] cat = "class" -> 3
    [] OTHER -> 4

\* C26: flush order.  The mutations one flush() applies are applied by
\* category, visibility before style before class before content; so the
\* visibility of a target is written before its content, whichever was
\* queued first.
C26_FlushOrder ==
  \A i, j \in FlushedAt(applied) :
    i < j => CategoryRank(applied[i].cat) <= CategoryRank(applied[j].cat)

\* batch() has queued content, class, style and visibility for one target,
\* in this order, and its flush has applied a mutation of each category
C26_Witness ==
  /\ last.op = "batch"
  /\ \A cat \in {"visibility", "style", "class", "text"} :
       \E k \in FlushedAt(applied) : applied[k].cat = cat /\ ~applied[k].threw
  /\ \E i, j \in FlushedAt(applied) :
       /\ i < j
       /\ applied[i].cat = "visibility" /\ applied[j].cat = "text"
       /\ applied[i].id = applied[j].id

\* C27: flush empties the queue.  After a call that has run flush() the four
\* pending collections are empty, and no flush applies a mutation an earlier
\* flush has applied.
C27_FlushEmptiesQueue ==
  /\ FlushRan(applied) =>
       /\ domBatcher.pendingVisibility = <<>>
       /\ domBatcher.pendingStyles = <<>>
       /\ domBatcher.pendingClasses = <<>>
       /\ domBatcher.pendingUpdates = <<>>
  /\ \A k \in FlushedAt(applied) : ~applied[k].again

\* C28: flush failure isolation.  When a mutation throws during flush(), the
\* call does not throw and the mutations of the categories that follow have
\* been applied, so their collections are empty.
C28_FlushFailureIsolation ==
  \A k \in FlushedAt(applied) :
    applied[k].threw =>
      /\ ~last.threw
      /\ \A n \in 1..Len(FlushOrder) :
           CategoryRank(FlushOrder[n]) > CategoryRank(applied[k].cat) =>
             domBatcher[Pending(FlushOrder[n])] = <<>>

\* C29: single scheduled flush.  At most one display-refresh callback of the
\* batcher is pending.
C29_SingleScheduledFlush == Cardinality(refreshes) <= 1

\* the pending mutations, as (category, mutation) pairs
PendingIn(b) ==
  UNION {{<<FlushOrder[n], b[Pending(FlushOrder[n])][k]>> :
            k \in 1..Len(b[Pending(FlushOrder[n])])} : n \in 1..Len(FlushOrder)}

----------------------------------------------------------------------------
(* Further properties of the scheduler (SpecLoop) *)

\* C37: single loop chain.  At most one next-iteration callback of the
\* scheduler is pending, whatever start() and stop() calls are made, inside
\* handlers or between display refreshes.
C37_SingleLoopChain == Cardinality(frames) <= 1

----------------------------------------------------------------------------
(* Further properties of the phase manager (SpecModules) *)

\* the dynamically imported modules among the dependencies of a phase
DynamicDependencies(phase) ==
  {phaseDependencies(phase)[k] : k \in 1..Len(phaseDependencies(phase))} \cap DynamicModules

\* C40: phase implies its modules.  Whenever the current phase is P, every
\* dynamically imported module among P's dependencies is marked loaded, also
\* when an import or an initializer failed during the transition.
C40_PhaseImpliesModules ==
  DynamicDependencies(phaseManager.currentPhase) \subseteq phaseManager.loadedModules

\* C34: ready only after initialization.  A module is marked loaded only in the
\* step in which its import settled (for a module without initializer) or its
\* initializer completed; a loadModule call whose import or initializer fails
\* leaves the loaded modules as they were and resolves with null, and no
\* loadModule call is rejected.
C34_ReadyAfterInit ==
  [][/\ \A m \in phaseManager'.loadedModules \ phaseManager.loadedModules :
          \E i \in 1..Len(tasks) :
            /\ tasks[i].mod = m
            /\ tasks'[i].mod # m
            /\ \/ tasks[i].pc = "init" /\ last'.op = "initSettled"
               \/ tasks[i].pc = "import" /\ last'.op = "importSettled" /\ m \notin HasInit
     /\ \A i \in 1..Len(tasks) :
          (tasks[i].root = "loadModule" /\ tasks[i].pc # "settled" /\ tasks'[i].pc = "settled") =>
            /\ tasks'[i].state = "resolved"
            /\ \/ tasks'[i].value = tasks[i].arg /\ tasks[i].arg \in phaseManager'.loadedModules
               \/ tasks'[i].value = "null" /\ phaseManager'.loadedModules = phaseManager.loadedModules]_vars

----------------------------------------------------------------------------
(* Further properties of the observer registry (SpecObservers) *)

\* C38: observer fault isolation.  When an observer throws during the
\* notification of a set, the set returns normally, the new value is stored
\* (unless an observer has written the path again), and every observer due
\* for the write has been invoked exactly once.
C38_ObserverFaultIsolation ==
  [][(last'.op = "set" /\ \E i \in Direct(log') : log'[i].threw) =>
       /\ ~last'.threw
       /\ (\A w \in 1..Len(last'.writes) : last'.writes[w].path # last'.path) =>
            Get(tree', last'.path).val = last'.val
       /\ \A pattern \in DOMAIN observers :
            Matches(pattern, last'.path) =>
              \A k \in 1..Len(observers[pattern]) :
                Cardinality({i \in Direct(log') :
                               /\ log'[i].pattern = pattern
                               /\ log'[i].cb = observers[pattern][k]}) = 1]_vars

\* an observer has thrown and an observer registered after it on the same
\* path has been invoked with the new value all the same
C38_Witness ==
  /\ last.op = "set"
  /\ ~last.threw
  /\ Get(tree, last.path).val = last.val
  /\ \E i, j \in Direct(log) :
       /\ i < j
       /\ log[i].threw
       /\ log[i].cb = "thrower"
       /\ log[i].pattern = log[j].pattern
       /\ log[j].cb = "recorder"
       /\ log[j].new = last.val

----------------------------------------------------------------------------
(* Further properties of the DOM batcher (SpecBatch) *)

\* the mutations the update function of the last call has queued
QueuedByFn(b, at) ==
  {<<cat, k>> \in {"visibility", "style", "class", "text"} \X (1..4) :
     k <= Len(b[Pending(cat)]) /\ b[Pending(cat)][k].at = at}

\* C31: batch(fn).  batch never throws and leaves batching as it was; when
\* batching was disabled, nothing that fn queued is still pending and each of
\* fn's mutations has been applied; when batching was enabled, batch itself
\* does not flush.  This holds also when fn throws.
C31_Batch ==
  [][last'.op = "batch" =>
       /\ ~last'.threw
       /\ domBatcher'.enabled = domBatcher.enabled
       /\ domBatcher.enabled => ~FlushRan(applied')
       /\ ~domBatcher.enabled =>
            /\ QueuedByFn(domBatcher', steps) = {}
            /\ \E k \in 1..Len(applied') :
                 /\ applied'[k].cat = "text"
                 /\ applied'[k].at = steps
                 /\ ~applied'[k].threw]_vars

----------------------------------------------------------------------------
(* Properties of the monitors (SpecMonitor, SpecHistories) *)

\* C32: memory monitor start/stop.  start() on a started monitor leaves the
\* timer and its id as they are, stop() leaves no timer, and the monitor is
\* enabled exactly when its sampling timer exists.
C32_MonitorStartStop ==
  [][/\ (last'.op = "start" /\ memoryMonitor.enabled) =>
          /\ memoryMonitor'.intervalId = memoryMonitor.intervalId
          /\ timers' = timers
     /\ last'.op = "stop" => timers' = {} /\ memoryMonitor'.intervalId = 0
     /\ memoryMonitor'.enabled <=> memoryMonitor'.intervalId # 0
     /\ timers' = {memoryMonitor'.intervalId} \ {0}]_vars

\* start() was called on a started monitor: nothing was logged and the first
\* timer is the only one
C32_Witness ==
  /\ last.op = "start"
  /\ steps = 2
  /\ arrived.errorLog = 1
  /\ memoryMonitor.enabled
  /\ memoryMonitor.intervalId = 1
  /\ timers = {1}

\* the last min(n, max) of n arrivals, oldest first
Recent(array, n, max) ==
  /\ Len(array) = (IF n < max THEN n ELSE max)
  /\ \A k \in 1..Len(array) : array[k] = n - Len(array) + k

Arrival(array) == [k \in 1..Len(array) |-> array[k].n]

\* C35: bounded rolling histories.  The frame history holds at most 60
\* entries, the samples at most maxSamples, the issues at most 50 and the
\* error log at most 100, each the most recent ones in arrival order.
C35_BoundedHistories ==
  /\ Recent(frameTimes, arrived.frameTimes, 60)
  /\ Recent(Arrival(memoryMonitor.samples), arrived.samples, memoryMonitor.maxSamples)
  /\ Recent(Arrival(memoryMonitor.issues), arrived.issues, 50)
  /\ Recent(Arrival(errorLog), arrived.errorLog, 100)

\* after 101 reported issues the first 51 issues and the first log entry
\* have been discarded
C35_Witness ==
  /\ arrived.issues = 101
  /\ Len(memoryMonitor.issues) = 50
  /\ memoryMonitor.issues[1].n = 52
  /\ Len(errorLog) = 100
  /\ errorLog[1].n = 2

----------------------------------------------------------------------------
(* Properties of the renderer (SpecRender) *)

\* the render pass and the calls on the batcher
RenderingOps ==
  {"render", "updateText", "updateHTML", "updateStyles", "updateClasses", "updateVisibility",
   "flush", "refresh", "read", "batch", "setEnabled"}

\* C36: rendering is side-effect-free on state.  A render pass and every
\* call on the batcher leave the whole state tree as it was and invoke no
\* observer.
C36_RenderLeavesState ==
  [][last'.op \in RenderingOps => tree' = tree /\ log' = <<>>]_vars

\* a render pass has queued the text of a value that was set while an
\* observer of the store was registered
C36_Witness ==
  /\ last.op = "render"
  /\ observers # <<>>
  /\ tree[<<"resources", "clips">>] = Num(1)
  /\ LastValue(uiRenderer, "clips") = Num(1)
  /\ <<"text", "clips">> \in DOMAIN queued
  /\ queued[<<"text", "clips">>] = TextPayload("1")

----------------------------------------------------------------------------
(* Properties of state replacement (SpecReplace) *)

\* no disposer of the registration has been invoked
Undisposed(pattern, cb) ==
  \A k \in 1..Len(disposers) :
    (disposers[k].pattern = pattern /\ disposers[k].cb = cb) => ~disposers[k].invoked

\* setupPhaseWatchers has run
WatchersSet ==
  \E i \in 1..Len(tasks) :
    tasks[i].root = "init" /\ tasks[i].stage = "try" /\ tasks[i].state = "resolved"

\* the callback was invoked for the pattern by the last call
Notified(lg, pattern, cb) ==
  \E i \in Direct(lg) : lg[i].pattern = pattern /\ lg[i].cb = cb

\* C33: observer registrations outlive state replacement.  A set that changes
\* a value notifies every observer that was registered on a matching pattern
\* and whose disposer has not been invoked, and the phase watchers once
\* init() has registered them, whatever save(), load(), importSave() and
\* reset() calls were made in between.
C33_RegistrationsOutlive ==
  [][(last'.op = "set" /\ ~last'.threw /\ Changed(last')) =>
       /\ \A k \in 1..Len(disposers) :
            (Matches(disposers[k].pattern, last'.path)
             /\ Undisposed(disposers[k].pattern, disposers[k].cb)) =>
              Notified(log', disposers[k].pattern, disposers[k].cb)
       /\ \A phase \in {"space", "endgame"} :
            (WatchersSet /\ last'.path = WatchedPath(phase)) =>
              Notified(log', WatchedPath(phase), Watcher(phase))]_vars

\* C39: bulk replacement is unobserved.  load(), importSave() and reset()
\* invoke no observer and start no transition: the phase manager and its
\* calls are as before, also when the phase flags have changed.
C39_ReplacementUnobserved ==
  [][last'.op \in {"load", "importSave", "reset"} =>
       /\ log' = <<>>
       /\ phaseManager' = phaseManager
       /\ tasks' = tasks]_vars

\* an import has made flags.space true while the watchers were registered,
\* and the phase is still 'human'
C39_Witness ==
  /\ last.op = "importSave"
  /\ last.ret = Bool(TRUE)
  /\ WatchersSet
  /\ IsRegistered(observers, WatchedPath("space"), Watcher("space"))
  /\ Get(tree, WatchedPath("space")).val = Bool(TRUE)
  /\ phaseManager.currentPhase = "human"

====
